---- MODULE Spec2Model ----
(***************************************************************************)
(* Orchestration engine of the grading-agent repository: conversation      *)
(* memory (rolling window and streaming slot), rate limiter, response      *)
(* cache, metrics, the chat() workflow graph and the chat_streaming        *)
(* generator.                                                              *)
(*                                                                         *)
(* Text is a sequence of tokens, so "+" on Python strings is \o and the    *)
(* empty string is << >>.  Time is counted in clock ticks, TicksPerSecond  *)
(* ticks to the second, so that int() truncation of a float is visible.    *)
(* A Python None is the string "none" where a string is expected and the   *)
(* empty set where a dict is expected.                                     *)
(***************************************************************************)
EXTENDS Integers, Sequences, FiniteSets, TLC

VARIABLES
    conversation_history,  \* MasterAgent.conversation_history (ConversationHistory)
    now,                   \* the clock read by time.time() / datetime.now(), in ticks
    appended,              \* history: messages appended since the last clear_history
    minLimit,              \* history: least max_messages in force since the last clear
    rate_limiter,          \* MasterAgent.rate_limiter (RateLimiter)
    admitted,              \* history: per identifier, the times of the calls admitted
    rl_result,             \* history: the last check_rate_limit call and what it returned
    rl_reset,              \* history: the last reset call and whether a check followed it
    specialized_agents,    \* MasterAgent.specialized_agents: name -> what the agent supports
    metrics,               \* monitoring.metrics_collector.metrics: agent type -> counters
    monitor,               \* MasterAgent.monitor and MasterAgent.performance_monitor
    stream,                \* the frame of the chat_streaming generator
    events,                \* the events the consumer of chat_streaming has received
    response_cache,        \* MasterAgent.response_cache
    data_manager,          \* MasterAgent.data_manager: the interactions stored, or "none"
    chat,                  \* the frame of the chat() call and the state of its graph
    cache_log,             \* history: the last ResponseCache call and what the cache held
    threads                \* the frames of the requests running concurrently

memVars == <<conversation_history, appended, minLimit>>
rateVars == <<rate_limiter, admitted, rl_result, rl_reset>>
obsVars == <<metrics, monitor>>
streamVars == <<stream, events>>
chatVars == <<response_cache, data_manager, chat>>
fixedVars == <<specialized_agents, cache_log, threads>>
vars == <<conversation_history, now, appended, minLimit,
          rate_limiter, admitted, rl_result, rl_reset,
          specialized_agents, metrics, monitor, stream, events,
          response_cache, data_manager, chat, cache_log, threads>>

(***************************************************************************)
(* Bounds of the model.                                                    *)
(***************************************************************************)
MaxAppends == 5     \* messages appended between two clears (SpecMem)
MaxLimit == 3       \* largest max_messages tried
MaxTime == 6        \* last clock tick
RateMaxCalls == 2   \* RateLimiter.max_calls of the limiter under check
RateWindow == 2     \* RateLimiter.time_window of the limiter under check, in seconds

TicksPerSecond == 2

NoAgent == "none"
Roles == {"user", "assistant", "system"}
Tokens == {"a", "b"}
Texts == {<<t>> : t \in Tokens}

Min(a, b) == IF a < b THEN a ELSE b

\* seq[-n:] for n > 0: the last n elements (all of them when n >= len)
LastN(seq, n) ==
    IF Len(seq) <= n THEN seq ELSE SubSeq(seq, Len(seq) - n + 1, Len(seq))

\* seq[:n]: the first n elements
FirstN(seq, n) ==
    IF Len(seq) <= n THEN seq ELSE SubSeq(seq, 1, n)

(***************************************************************************)
(* ConversationHistory                                                     *)
(***************************************************************************)
ChatMessage(role, content, timestamp, agent_type, metadata) ==
    [role |-> role, content |-> content, timestamp |-> timestamp,
     agent_type |-> agent_type, metadata |-> metadata]

ConversationHistory(max_messages) ==
    [max_messages |-> max_messages,
     messages |-> << >>,
     streaming_active |-> FALSE,
     streaming_agent |-> NoAgent,
     streaming_chunks |-> << >>]

\* the rolling window trimmed from the wrong end
_add_message_keeps_oldest(h, message) ==
    [h EXCEPT !.messages = FirstN(Append(h.messages, message), h.max_messages)]

_add_message(h, message) ==
    LET all == Append(h.messages, message)
    IN  IF Len(all) > h.max_messages
        THEN [h EXCEPT !.messages = LastN(all, h.max_messages)]
        ELSE [h EXCEPT !.messages = all]

UserMessage(content, t) == ChatMessage("user", content, t, NoAgent, {})
AssistantMessage(content, agent_type, metadata, t) ==
    ChatMessage("assistant", content, t, agent_type, metadata)
SystemMessage(content, t) == ChatMessage("system", content, t, NoAgent, {})

add_user_message(h, content, t) == _add_message(h, UserMessage(content, t))

add_assistant_message(h, content, agent_type, metadata, t) ==
    _add_message(h, AssistantMessage(content, agent_type, metadata, t))

add_system_message(h, content, t) == _add_message(h, SystemMessage(content, t))

clear_history(h) == [h EXCEPT !.messages = << >>]

\* MasterAgent.set_conversation_history_limit: ignored unless max_messages > 0
set_conversation_history_limit(h, max_messages) ==
    IF max_messages > 0
    THEN [h EXCEPT !.max_messages = max_messages,
                   !.messages = IF Len(h.messages) > max_messages
                                THEN LastN(h.messages, max_messages)
                                ELSE h.messages]
    ELSE h

(***************************************************************************)
(* RateLimiter                                                             *)
(***************************************************************************)
Identifiers == {"default", "other"}

\* a dict with key k set to v, and with key k deleted
DictSet(d, k, v) == [x \in DOMAIN d \cup {k} |-> IF x = k THEN v ELSE d[x]]
DictDel(d, k) == [x \in DOMAIN d \ {k} |-> d[x]]
EmptyDict == [x \in {} |-> 0]

\* [e for e in seq if Keep(e)]
RECURSIVE SelectIn(_, _)
SelectIn(seq, keep) ==
    IF seq = << >> THEN << >>
    ELSE IF Head(seq) \in keep
         THEN <<Head(seq)>> \o SelectIn(Tail(seq), keep)
         ELSE SelectIn(Tail(seq), keep)

RECURSIVE SeqMin(_)
SeqMin(seq) ==
    IF Len(seq) = 1 THEN seq[1] ELSE Min(seq[1], SeqMin(Tail(seq)))

RateLimiter(max_calls, time_window, enabled) ==
    [max_calls |-> max_calls, time_window |-> time_window,
     calls |-> EmptyDict, enabled |-> enabled]

\* the calls of a window that are not outside it at time t
InWindow(rl, window, t) ==
    SelectIn(window, {c \in 0..MaxTime : c > t - rl.time_window * TicksPerSecond})

\* the limit test that lets one call too many through
LimitExceededOffByOne(rl, window) == Len(window) > rl.max_calls

LimitExceeded(rl, window) == Len(window) >= rl.max_calls

\* int(self.time_window - (now - oldest_call))
RetryAfter(rl, window, t) ==
    (rl.time_window * TicksPerSecond - (t - SeqMin(window))) \div TicksPerSecond

\* check_rate_limit(identifier) at time t: the limiter afterwards and the dict returned
check_rate_limit(rl, identifier, t) ==
    IF ~rl.enabled
    THEN [rl |-> rl, allowed |-> TRUE, retry_after |-> 0]
    ELSE LET old == IF identifier \in DOMAIN rl.calls
                    THEN rl.calls[identifier] ELSE << >>
             window == InWindow(rl, old, t)
         IN  IF LimitExceeded(rl, window)
             THEN [rl |-> [rl EXCEPT !.calls = DictSet(rl.calls, identifier, window)],
                   allowed |-> FALSE,
                   retry_after |-> RetryAfter(rl, window, t)]
             ELSE [rl |-> [rl EXCEPT !.calls =
                               DictSet(rl.calls, identifier, Append(window, t))],
                   allowed |-> TRUE,
                   retry_after |-> 0]

\* a reset that leaves the window in place
reset_keeps_window(rl, identifier) == rl

reset(rl, identifier) ==
    IF identifier \in DOMAIN rl.calls
    THEN [rl EXCEPT !.calls = DictDel(rl.calls, identifier)]
    ELSE rl

NoResult == [identifier |-> "none", at |-> 0, allowed |-> TRUE, retry_after |-> 0]

\* no reset call yet (or one already followed by two checks of its identifier)
NoReset == [identifier |-> "none", at_limit |-> FALSE, followed |-> FALSE]

\* the reset history after check_rate_limit(identifier)
Followed(r, identifier) ==
    IF r.identifier /= identifier THEN r
    ELSE IF r.followed THEN NoReset
    ELSE [r EXCEPT !.followed = TRUE]

\* a limiter nobody has called yet
RateIdle ==
    /\ rate_limiter = RateLimiter(RateMaxCalls, RateWindow, TRUE)
    /\ admitted = [i \in Identifiers |-> << >>]
    /\ rl_result = NoResult
    /\ rl_reset = NoReset

(***************************************************************************)
(* ConversationHistory: the streaming slot.  Its methods are those the     *)
(* orchestrator calls (master_agent.py, lines 873 to 952); what they do is *)
(* taken from their documented behaviour and tests/test_streaming.py.      *)
(***************************************************************************)
\* "".join(chunks)
RECURSIVE Concat(_)
Concat(chunks) ==
    IF chunks = << >> THEN << >> ELSE Head(chunks) \o Concat(Tail(chunks))

is_streaming(h) == h.streaming_active

\* start_streaming_message raises when a stream is already open
start_streaming_raises(h) == h.streaming_active

start_streaming_message(h, agent_type) ==
    [h EXCEPT !.streaming_active = TRUE,
              !.streaming_agent = agent_type,
              !.streaming_chunks = << >>]

\* a chunk put in front of the buffer instead of behind it
add_streaming_chunk_in_front(h, chunk) ==
    IF h.streaming_active
    THEN [h EXCEPT !.streaming_chunks = <<chunk>> \o @]
    ELSE h

add_streaming_chunk(h, chunk) ==
    IF h.streaming_active
    THEN [h EXCEPT !.streaming_chunks = Append(@, chunk)]
    ELSE h

CloseSlot(h) ==
    [h EXCEPT !.streaming_active = FALSE,
              !.streaming_agent = NoAgent,
              !.streaming_chunks = << >>]

finalize_streaming_message(h, t) ==
    IF h.streaming_active
    THEN CloseSlot(add_assistant_message(h, Concat(h.streaming_chunks),
                                         h.streaming_agent, {"was_streamed"}, t))
    ELSE h

\* a cancel that leaves the buffered chunks behind
cancel_keeps_buffer(h) == [h EXCEPT !.streaming_active = FALSE]

cancel_streaming_message(h) == CloseSlot(h)

(***************************************************************************)
(* InputValidator.  An input is a sequence of tokens: words, the blank     *)
(* " ", the null byte and tokens that stand for an unsafe pattern.         *)
(***************************************************************************)
MaxInputLength == 3     \* config.max_input_length, in tokens

Blank == " "
Nul == "NUL"
SuspiciousTokens == {"<script>", "javascript:", "onclick="}

RECURSIVE LStrip(_)
LStrip(text) ==
    IF text /= << >> /\ Head(text) = Blank THEN LStrip(Tail(text)) ELSE text

RECURSIVE RStrip(_)
RStrip(text) ==
    IF text /= << >> /\ text[Len(text)] = Blank
    THEN RStrip(SubSeq(text, 1, Len(text) - 1))
    ELSE text

\* str.strip()
Strip(text) == RStrip(LStrip(text))

\* str.replace('\x00', '')
RECURSIVE RemoveNul(_)
RemoveNul(text) ==
    IF text = << >> THEN << >>
    ELSE IF Head(text) = Nul THEN RemoveNul(Tail(text))
         ELSE <<Head(text)>> \o RemoveNul(Tail(text))

\* re.sub(r'\s+', ' ', text)
RECURSIVE CollapseBlanks(_)
CollapseBlanks(text) ==
    IF Len(text) < 2 THEN text
    ELSE IF text[1] = Blank /\ text[2] = Blank
         THEN CollapseBlanks(Tail(text))
         ELSE <<Head(text)>> \o CollapseBlanks(Tail(text))

\* validate_input: the error of an invalid input, "none" for a valid one
validate_input(user_input) ==
    IF user_input = << >> \/ Strip(user_input) = << >>
    THEN "Input cannot be empty"
    ELSE IF Len(user_input) > MaxInputLength
    THEN "Input too long"
    ELSE IF \E i \in 1..Len(user_input) : user_input[i] \in SuspiciousTokens
    THEN "Input contains potentially unsafe content"
    ELSE "none"

sanitize_input(user_input) == CollapseBlanks(RemoveNul(Strip(user_input)))

\* str.lower() on one token
Lower(token) ==
    CASE token = "Grade" -> "grade"
      [] token = "Explain" -> "explain"
      [] token = "Grading" -> "grading"
      [] token = "ANALYSIS" -> "analysis"
      [] OTHER -> token

\* str.lower()
LowerText(text) == [i \in 1..Len(text) |-> Lower(text[i])]

ContainsAny(text, keywords) ==
    \E i \in 1..Len(text) : Lower(text[i]) \in keywords

(***************************************************************************)
(* ResponseCache.  cache is the OrderedDict, a sequence of (key, response) *)
(* in dict order; timestamps is the plain dict of insertion times.         *)
(***************************************************************************)
CacheMaxSize == 3   \* config.cache_max_size
CacheTTL == 1       \* config.cache_ttl, in seconds

\* str(n) for a small natural number
str(n) == <<"0", "1", "2", "3", "4", "5", "6", "7", "8", "9">>[n + 1]

ResponseCache(max_size, ttl, enabled) ==
    [max_size |-> max_size, ttl |-> ttl, enabled |-> enabled,
     cache |-> << >>, timestamps |-> EmptyDict, hits |-> 0, misses |-> 0]

\* the text that is hashed: user_input + context
_generate_key(user_input, context) ==
    IF context /= << >> THEN user_input \o context ELSE user_input

\* the position of the key in the dict, 0 when it is not a key
KeyIndex(entries, key) ==
    IF \E i \in 1..Len(entries) : entries[i].key = key
    THEN CHOOSE i \in 1..Len(entries) : entries[i].key = key
    ELSE 0

RemoveAt(seq, i) == SubSeq(seq, 1, i - 1) \o SubSeq(seq, i + 1, Len(seq))

\* self.timestamps.get(key, 0)
TimestampOf(c, key) ==
    IF key \in DOMAIN c.timestamps THEN c.timestamps[key] ELSE 0

\* not (time.time() - timestamp < self.ttl)
Expired(c, key, t) == ~(t - TimestampOf(c, key) < c.ttl * TicksPerSecond)

AtCapacity(c) == Len(c.cache) >= c.max_size

\* del self.cache[key]; del self.timestamps[key]
Remove(c, key) ==
    [c EXCEPT !.cache = RemoveAt(@, KeyIndex(@, key)),
              !.timestamps = DictDel(@, key)]

\* an eviction that forgets the value and keeps the timestamp
EvictOldestKeepsTimestamp(c) ==
    [c EXCEPT !.cache = Tail(@)]

\* oldest_key = next(iter(self.cache)), deleted from both dicts
EvictOldest(c) == Remove(c, c.cache[1].key)

\* a hit that leaves the entry where it is
TouchNot(c, key) == c

\* self.cache.move_to_end(key)
Touch(c, key) ==
    LET i == KeyIndex(c.cache, key)
    IN  [c EXCEPT !.cache = Append(RemoveAt(@, i), c.cache[i])]

\* self.cache[key] = response: an existing key keeps its place in the dict
Assign(entries, key, response) ==
    LET i == KeyIndex(entries, key)
        entry == [key |-> key, response |-> response]
    IN  IF i /= 0 THEN [entries EXCEPT ![i] = entry] ELSE Append(entries, entry)

\* a lookup that never expires an entry
get_ignores_ttl(c, user_input, context, t) ==
    IF ~c.enabled THEN [cache |-> c, hit |-> FALSE, value |-> << >>]
    ELSE LET key == _generate_key(user_input, context)
             i == KeyIndex(c.cache, key)
         IN  IF i /= 0
             THEN [cache |-> [Touch(c, key) EXCEPT !.hits = @ + 1],
                   hit |-> TRUE, value |-> c.cache[i].response]
             ELSE [cache |-> [c EXCEPT !.misses = @ + 1],
                   hit |-> FALSE, value |-> << >>]

\* ResponseCache.get at time t: the cache afterwards, and the value returned
\* (hit = FALSE stands for None)
get(c, user_input, context, t) ==
    IF ~c.enabled THEN [cache |-> c, hit |-> FALSE, value |-> << >>]
    ELSE LET key == _generate_key(user_input, context)
             i == KeyIndex(c.cache, key)
         IN  IF i /= 0 /\ ~Expired(c, key, t)
             THEN [cache |-> [Touch(c, key) EXCEPT !.hits = @ + 1],
                   hit |-> TRUE, value |-> c.cache[i].response]
             ELSE [cache |-> [(IF i /= 0 THEN Remove(c, key) ELSE c)
                                  EXCEPT !.misses = @ + 1],
                   hit |-> FALSE, value |-> << >>]

\* ResponseCache.set at time t
set(c, user_input, response, context, t) ==
    IF ~c.enabled THEN c
    ELSE LET key == _generate_key(user_input, context)
             kept == IF AtCapacity(c) THEN EvictOldest(c) ELSE c
         IN  [kept EXCEPT !.cache = Assign(@, key, response),
                          !.timestamps = DictSet(@, key, t)]

\* a clear that keeps the counters
clear_keeps_counters(c) ==
    [c EXCEPT !.cache = << >>, !.timestamps = EmptyDict]

\* ResponseCache.clear
clear(c) ==
    [c EXCEPT !.cache = << >>, !.timestamps = EmptyDict,
              !.hits = 0, !.misses = 0]

(***************************************************************************)
(* DataManager: the interactions file, one interaction per line            *)
(***************************************************************************)
RecentLimit == 50          \* get_recent_interactions(limit=50)
DefaultMaxContext == 5     \* max_context: int = 5

\* history: no get_relevant_context call observed yet
NoLookup == [called |-> FALSE, user_input |-> << >>, max_context |-> 0,
             recent |-> << >>, result |-> << >>]

NoDataManager == [present |-> FALSE, interactions |-> << >>, lookup |-> NoLookup]
DataManager == [present |-> TRUE, interactions |-> << >>, lookup |-> NoLookup]

\* store_interaction: one more line in the interactions file
store_interaction(dm, interaction) ==
    [dm EXCEPT !.interactions = Append(@, interaction)]

LowerAll(text) == {Lower(text[i]) : i \in 1..Len(text)}

\* the words of the text of an interaction, lower-cased
InteractionText(interaction) ==
    LowerAll(interaction.user_input)
        \cup {interaction.agent_responses[i].agent :
                  i \in 1..Len(interaction.agent_responses)}
        \cup UNION {LowerAll(interaction.agent_responses[i].response) :
                        i \in 1..Len(interaction.agent_responses)}

\* get_recent_interactions(limit): the last lines of the file, oldest first
get_recent_interactions(dm, limit) == LastN(dm.interactions, limit)

\* keywords = user_input.lower().split()
Keywords(user_input) ==
    SelectSeq(LowerText(user_input), LAMBDA token : token /= Blank)

\* relevance_score = sum(1 for keyword in keywords if keyword in interaction_text)
RelevanceScore(keywords, interaction) ==
    Len(SelectSeq(keywords, LAMBDA keyword : keyword \in InteractionText(interaction)))

\* the recent interactions with relevance_score > 0, in the order of the
\* file; line is the place of the interaction among the recent ones
Scored(recent, keywords) ==
    SelectSeq([i \in 1..Len(recent) |->
                   [line |-> i, relevance_score |-> RelevanceScore(keywords, recent[i])]],
              LAMBDA interaction : interaction.relevance_score > 0)

\* the list left in the order of the file
Unsorted(interactions) == interactions

\* list.sort(key=lambda x: x["relevance_score"], reverse=True): the greatest
\* score first, equal scores in the order they had
RECURSIVE SortByScore(_)
SortByScore(interactions) ==
    IF interactions = << >> THEN << >>
    ELSE LET best == CHOOSE i \in 1..Len(interactions) :
                         /\ \A j \in 1..Len(interactions) :
                                interactions[j].relevance_score
                                    <= interactions[i].relevance_score
                         /\ \A j \in 1..(i - 1) :
                                interactions[j].relevance_score
                                    < interactions[i].relevance_score
         IN  <<interactions[best]>>
                 \o SortByScore(SubSeq(interactions, 1, best - 1)
                                    \o SubSeq(interactions, best + 1, Len(interactions)))

\* relevant_interactions of get_relevant_context(user_input, max_context)
RelevantInteractions(dm, user_input, max_context) ==
    FirstN(SortByScore(Scored(get_recent_interactions(dm, RecentLimit),
                              Keywords(user_input))),
           max_context)

\* get_relevant_context(user_input): how many relevant interactions the
\* context holds
get_relevant_context(dm, user_input) ==
    [relevant_interactions |->
         Len(RelevantInteractions(dm, user_input, DefaultMaxContext))]

(***************************************************************************)
(* MetricsCollector, SystemMonitor, PerformanceMonitor                     *)
(***************************************************************************)
NewMetric == [count |-> 0, total_duration |-> 0, errors |-> 0, last_called |-> -1]

\* record_request with metrics enabled
record_request(m, agent_type, duration, success, t) ==
    LET old == IF agent_type \in DOMAIN m THEN m[agent_type] ELSE NewMetric
    IN  DictSet(m, agent_type,
                [count |-> old.count + 1,
                 total_duration |-> old.total_duration + duration,
                 errors |-> IF success THEN old.errors ELSE old.errors + 1,
                 last_called |-> t])

SystemMonitor == [request_count |-> 0, error_count |-> 0, token_records |-> 0]

log_request(mon, success) ==
    [mon EXCEPT !.request_count = @ + 1,
                !.error_count = IF success THEN @ ELSE @ + 1]

record_token_usage(mon) == [mon EXCEPT !.token_records = @ + 1]

(***************************************************************************)
(* The specialized agents.  An agent is registered or not; a registered    *)
(* agent has stream_process ("stream") or only the blocking calls          *)
(* ("basic").  What the remote model answers is drawn from Texts.          *)
(***************************************************************************)
AgentNames == {"chat", "analysis", "grading", "formatting"}
Errors == {"timeout", "connection"}
Responses == Texts \cup {<< >>}

HasAgent(agents, name) == name \in DOMAIN agents
HasStream(agents, name) == name \in DOMAIN agents /\ agents[name] = "stream"

\* the last message of the memory is the user message of the request
UserMessageIsLast(h, user_input) ==
    /\ h.messages /= << >>
    /\ h.messages[Len(h.messages)].role = "user"
    /\ h.messages[Len(h.messages)].content = user_input

\* history: the request issues the operation op, and whether its user message
\* was the last message of the memory when it did
Logged(r, op) ==
    [r EXCEPT !.ops = Append(@, [op |-> op,
                                 stored |-> UserMessageIsLast(conversation_history,
                                                              r.user_input)])]

\* the user message left out of the memory
AddUserMessageSkipped(h, user_input, t) == h

\* self.conversation_history.add_user_message(user_input), before the workflow
AddUserMessage(h, user_input, t) == add_user_message(h, user_input, t)

\* the frame of a chat_streaming generator that has not been called
IdleStream ==
    [pc |-> "idle", stage |-> "none", user_input |-> << >>,
     agent_type |-> "unknown", workflow_type |-> "none",
     grading_output |-> << >>, formatted_output |-> << >>,
     full_response |-> << >>, chunk |-> << >>,
     llm_pulls |-> 0, agent_failed |-> FALSE, agent_queue |-> << >>,
     results_text |-> << >>, start_time |-> 0,
     \* history of the run, read by the properties only
     slot_opened |-> FALSE, transport_failure |-> FALSE, outcome |-> "none",
     msgs_at_open |-> << >>, slot_log |-> << >>, fmt_called |-> FALSE,
     stopped_at |-> 0, ops |-> << >>]

\* initial_state of chat(), Step 5
InitialState(user_input) ==
    [user_input |-> user_input, response |-> << >>, error |-> << >>,
     agent_type |-> "", task_classification |-> "",
     agent_responses |-> << >>, data_context |-> [relevant_interactions |-> 0],
     workflow_path |-> << >>, current_agent |-> "",
     formatted_output |-> << >>, additional_notes |-> << >>]

\* what a rejected call must leave alone
Snapshot ==
    [conversation_history |-> conversation_history,
     response_cache |-> response_cache,
     rate_limiter |-> rate_limiter,
     metrics |-> metrics, monitor |-> monitor]

\* history: no call before this one
NoCall ==
    [raw_input |-> << >>, start_time |-> 0, pc |-> "idle", failed |-> "none",
     result |-> << >>]

\* the frame of a chat() that has not been called
IdleChat ==
    [pc |-> "idle", calls |-> 0, raw_input |-> << >>, user_input |-> << >>,
     start_time |-> 0, agent_type |-> "unknown", cache_context |-> << >>,
     state |-> InitialState(<< >>), result |-> << >>, raised |-> "none",
     \* history of the call, read by the properties only
     llm_calls |-> 0, failed |-> "none", failure |-> << >>,
     before |-> Snapshot, previous |-> NoCall,
     classified |-> [returned |-> FALSE, content |-> << >>],
     agent_calls |-> << >>, ops |-> << >>,
     grading |-> [called |-> FALSE, output |-> << >>],
     formatting |-> [called |-> FALSE, input |-> << >>, output |-> << >>],
     notes |-> [ran |-> FALSE, agent_responses |-> << >>, additional_notes |-> << >>]]

\* no ResponseCache call observed yet: nothing set, nothing used, nothing counted
NoCacheOp ==
    [op |-> "none", key |-> << >>, at |-> 0, hit |-> FALSE, value |-> << >>,
     present_before |-> FALSE, size_before |-> 0, counted_before |-> 0,
     at_capacity |-> FALSE,
     evicted |-> {}, victim |-> {},
     sets |-> EmptyDict, used |-> << >>, returned |-> 0, absent |-> 0]

\* no request running beside the caller
NoThreads == << >>

\* a cache, a data manager and a chat() nobody has called
ChatIdle ==
    /\ response_cache = ResponseCache(CacheMaxSize, CacheTTL, TRUE)
    /\ data_manager = DataManager
    /\ cache_log = NoCacheOp
    /\ threads = NoThreads
    /\ chat = IdleChat

\* an orchestrator whose agents, limiter, metrics and generator are untouched
AgentsIdle ==
    /\ specialized_agents = [a \in AgentNames |-> "stream"]
    /\ metrics = EmptyDict
    /\ monitor = SystemMonitor
    /\ stream = IdleStream
    /\ events = << >>
    /\ ChatIdle

(***************************************************************************)
(* SpecRate: one limiter, called sequentially while the clock advances.    *)
(***************************************************************************)
RateFrame == UNCHANGED <<memVars, fixedVars, obsVars, streamVars, chatVars>>

Tick ==
    /\ now < MaxTime
    /\ now' = now + 1
    /\ UNCHANGED <<memVars, rateVars, fixedVars, obsVars, streamVars,
                   chatVars>>

RateCheck ==
    \E id \in Identifiers :
        LET r == check_rate_limit(rate_limiter, id, now)
        IN  /\ rate_limiter' = r.rl
            /\ rl_result' = [identifier |-> id, at |-> now,
                             allowed |-> r.allowed, retry_after |-> r.retry_after]
            /\ admitted' = IF r.allowed /\ rate_limiter.enabled
                           THEN [admitted EXCEPT ![id] = Append(@, now)]
                           ELSE admitted
            /\ rl_reset' = Followed(rl_reset, id)
            /\ UNCHANGED now
            /\ RateFrame

RateReset ==
    \E id \in Identifiers :
        /\ rate_limiter' = reset(rate_limiter, id)
        /\ admitted' = [admitted EXCEPT ![id] = << >>]
        /\ rl_result' = NoResult
        /\ rl_reset' = [identifier |-> id,
                        at_limit |-> /\ id \in DOMAIN rate_limiter.calls
                                     /\ LimitExceeded(rate_limiter,
                                            InWindow(rate_limiter,
                                                     rate_limiter.calls[id], now)),
                        followed |-> FALSE]
        /\ UNCHANGED now
        /\ RateFrame

InitRate ==
    /\ conversation_history = ConversationHistory(MaxLimit)
    /\ minLimit = MaxLimit
    /\ appended = << >>
    /\ now = 0
    /\ \E enabled \in BOOLEAN :
           rate_limiter = RateLimiter(RateMaxCalls, RateWindow, enabled)
    /\ admitted = [i \in Identifiers |-> << >>]
    /\ rl_result = NoResult
    /\ rl_reset = NoReset
    /\ AgentsIdle

NextRate ==
    \/ Tick
    \/ RateCheck
    \/ RateReset

SpecRate == InitRate /\ [][NextRate]_vars

(***************************************************************************)
(* SpecMem: the rolling window under its public operations.                *)
(***************************************************************************)
\* what the memory operations leave alone
MemFrame == UNCHANGED <<rateVars, fixedVars, obsVars, streamVars, chatVars>>

MemAppend(message) ==
    /\ Len(appended) < MaxAppends
    /\ conversation_history' = _add_message(conversation_history, message)
    /\ appended' = Append(appended, message)
    /\ UNCHANGED <<now, minLimit>>
    /\ MemFrame

MemAddUser == \E c \in Texts : MemAppend(UserMessage(c, now))

MemAddAssistant == MemAppend(AssistantMessage(<<"a">>, "master", {}, now))

MemAddSystem == MemAppend(SystemMessage(<<"a">>, now))

MemClear ==
    /\ conversation_history' = clear_history(conversation_history)
    /\ appended' = << >>
    /\ minLimit' = conversation_history.max_messages
    /\ UNCHANGED now
    /\ MemFrame

MemSetLimit ==
    \E m \in 0..MaxLimit :
        /\ conversation_history' =
               set_conversation_history_limit(conversation_history, m)
        /\ minLimit' = Min(minLimit, conversation_history'.max_messages)
        /\ UNCHANGED <<now, appended>>
        /\ MemFrame

InitMem ==
    /\ \E m \in 1..MaxLimit :
           /\ conversation_history = ConversationHistory(m)
           /\ minLimit = m
    /\ now = 0
    /\ appended = << >>
    /\ RateIdle
    /\ AgentsIdle

NextMem ==
    \/ MemAddUser
    \/ MemAddAssistant
    \/ MemAddSystem
    \/ MemClear
    \/ MemSetLimit

SpecMem == InitMem /\ [][NextMem]_vars

(***************************************************************************)
(* SpecStream: MasterAgent.chat_streaming.  The generator is suspended at  *)
(* a yield (pc "y_...") or awaits the next chunk of an agent's             *)
(* stream_process (pc "await"); every action runs it from one suspension   *)
(* to the next.  A consumer that stops iterating leaves it suspended, or   *)
(* closes it, which raises GeneratorExit at the yield: no except clause of *)
(* chat_streaming catches that, so in both cases no further line runs.     *)
(* A behaviour is one call; it starts from an orchestrator whose limiter   *)
(* may be used up and whose streaming slot an earlier, abandoned call may  *)
(* have left open.                                                         *)
(***************************************************************************)
MaxChunks == 2      \* chunks the remote model streams to one agent

StreamEvent(type, content, agent) ==
    [type |-> type, content |-> content, agent |-> agent]

Status(content, agent) == StreamEvent("status", <<content>>, agent)
Chunk(content, agent) == StreamEvent("chunk", content, agent)
Complete(agent) == StreamEvent("complete", << >>, agent)
\* an error event has no 'agent' key
Error(content) == StreamEvent("error", content, NoAgent)

GradingKeywords == {"grade", "grading", "score", "rubric", "assessment"}
AnalysisKeywords == {"analyze", "analysis", "data", "statistics"}

\* Step 4 of chat_streaming: classification by keyword
StreamClassify(user_input) ==
    IF ContainsAny(user_input, GradingKeywords) THEN "grading"
    ELSE IF ContainsAny(user_input, AnalysisKeywords) THEN "analysis"
    ELSE "chat"

StreamWorkflow(agent_type) ==
    IF agent_type = "grading" THEN "grading_workflow" ELSE "single_agent"

\* the agent a stage of the run talks to
StageAgent(r) ==
    CASE r.stage = "grading" -> "grading"
      [] r.stage = "formatting" -> "formatting"
      [] OTHER -> r.agent_type

StreamInputs ==
    { << >>, <<Blank>>, <<"hi">>, <<Blank, "Grade">>, <<"grade", "Explain">>,
      <<"data">>, <<"<script>">>, [i \in 1..(MaxInputLength + 1) |-> "hi"] }

\* what the except clause of an agent's stream_process yields before it ends
AgentErrorChunks(agent, error, results_text) ==
    IF agent = "formatting"
    THEN IF error = "timeout"
         THEN << <<"timeout_header">>, <<"timeout_note">>,
                 results_text \o <<"nl">>, <<"timeout_tip">> >>
         ELSE << <<"format_error", error>> >>
    ELSE << <<"apology", error>> >>

\* what a blocking agent call returns when the remote model raises
AgentErrorText(agent, error, results_text) ==
    IF agent = "formatting"
    THEN IF error = "timeout"
         THEN <<"timeout_header">> \o results_text \o <<"timeout_tip">>
         ELSE <<"format_error", error>>
    ELSE <<"apology", error>>

\* the input the formatting agent is given (line 905 and line 914)
FormattingInputIsUserInput(r) == r.user_input

FormattingInput(r) == r.grading_output

\* the accumulated output of the stage with one more chunk
Accumulate(r, chunk) ==
    CASE r.stage = "grading" -> [r EXCEPT !.grading_output = @ \o chunk]
      [] r.stage = "formatting" -> [r EXCEPT !.formatted_output = @ \o chunk]
      [] OTHER -> [r EXCEPT !.full_response = @ \o chunk]

StreamFrame == UNCHANGED <<now, appended, minLimit, fixedVars, chatVars>>

\* the run ends: its generator is finished
Finished(r) == [r EXCEPT !.pc = "done"]

\* Steps 7 and 8: finalize the slot, track the request
Finalize(r) ==
    /\ conversation_history' = finalize_streaming_message(conversation_history, now)
    /\ metrics' = record_request(metrics, r.agent_type, now - r.start_time, TRUE, now)
    /\ monitor' = log_request(monitor, TRUE)
    /\ stream' = Finished([Logged(r, "finalize_streaming_message") EXCEPT
                               !.outcome = "finalized"])
    /\ UNCHANGED <<events, rateVars>>

\* the except clause of chat_streaming up to its yield
Raise(r, message) ==
    /\ stream' = [r EXCEPT !.pc = "y_error"]
    /\ events' = Append(events, Error(<<"Error:", message>>))

\* the cleanup of the except clause once the consumer has taken the error event
ErrorCleanupSkipped(h) == h

ErrorCleanup(h) == cancel_streaming_message(h)

\* chat_streaming(user_input) up to its first yield
StreamBegin ==
    \E user_input \in StreamInputs :
        /\ stream.pc = "idle"
        /\ LET r0 == [IdleStream EXCEPT !.user_input = user_input, !.start_time = now]
               invalid == validate_input(user_input)
               clean == sanitize_input(user_input)
               rate == check_rate_limit(rate_limiter, "default", now)
           IN  IF invalid /= "none"
               THEN /\ events' = <<Error(<<invalid>>)>>
                    /\ stream' = [r0 EXCEPT !.pc = "y_reject"]
                    /\ UNCHANGED <<conversation_history, rateVars>>
               ELSE /\ rate_limiter' = rate.rl
                    /\ rl_result' = [identifier |-> "default", at |-> now,
                                     allowed |-> rate.allowed,
                                     retry_after |-> rate.retry_after]
                    /\ admitted' = IF rate.allowed /\ rate_limiter.enabled
                                   THEN [admitted EXCEPT !["default"] = Append(@, now)]
                                   ELSE admitted
                    /\ UNCHANGED rl_reset
                    /\ IF ~rate.allowed
                       THEN /\ events' = <<Error(<<"Rate limit exceeded">>)>>
                            /\ stream' = [r0 EXCEPT !.pc = "y_reject",
                                                    !.user_input = clean]
                            /\ UNCHANGED conversation_history
                       ELSE /\ conversation_history' =
                                   AddUserMessage(conversation_history, clean, now)
                            /\ events' = <<Status("Classifying request...", "master")>>
                            /\ stream' = Logged([r0 EXCEPT !.pc = "y_classifying",
                                                           !.user_input = clean],
                                                "add_user_message")
        /\ UNCHANGED obsVars
        /\ StreamFrame

\* resumed after a rejection was yielded: return
ResumeReject ==
    /\ stream.pc = "y_reject"
    /\ stream' = Finished(stream)
    /\ UNCHANGED <<conversation_history, events, rateVars, obsVars>>
    /\ StreamFrame

\* the single-agent branch (lines 920-935) up to its first yield
SingleAgent(r) ==
    IF HasStream(specialized_agents, r.agent_type)
    THEN /\ events' = Append(events, Status("Processing...", r.agent_type))
         /\ stream' = [r EXCEPT !.pc = "y_status", !.stage = "single"]
    ELSE \E answer \in Responses \cup {AgentErrorText(r.agent_type, e, << >>) : e \in Errors} :
             LET response == IF HasAgent(specialized_agents, r.agent_type)
                             THEN answer ELSE <<"Agent not available">>
                 asked == IF HasAgent(specialized_agents, r.agent_type)
                          THEN Logged(r, "call") ELSE r
             IN  /\ events' = Append(events, Chunk(response, r.agent_type))
                 /\ stream' = [asked EXCEPT !.pc = "y_fallback_chunk", !.stage = "single",
                                            !.full_response = response,
                                            !.transport_failure =
                                                HasAgent(specialized_agents, r.agent_type)
                                                /\ answer \notin Responses]

\* resumed after 'Classifying request...': Steps 4 and 5, then the first
\* yield of Step 6
ResumeClassifying ==
    /\ stream.pc = "y_classifying"
    /\ LET agent_type == StreamClassify(stream.user_input)
           r == [stream EXCEPT !.agent_type = agent_type,
                               !.workflow_type = StreamWorkflow(agent_type)]
       IN  IF start_streaming_raises(conversation_history)
           THEN /\ Raise(r, "streaming already in progress")
                /\ UNCHANGED conversation_history
           ELSE /\ conversation_history' =
                       start_streaming_message(conversation_history, agent_type)
                /\ LET opened == Logged([r EXCEPT !.slot_opened = TRUE,
                                                  !.msgs_at_open =
                                                      conversation_history.messages],
                                        "start_streaming_message")
                   IN  IF r.workflow_type = "grading_workflow"
                       THEN /\ events' = Append(events,
                                   Status("Starting grading workflow...", "master"))
                            /\ stream' = [opened EXCEPT !.pc = "y_workflow"]
                       ELSE SingleAgent(opened)
    /\ UNCHANGED <<rateVars, obsVars>>
    /\ StreamFrame

\* resumed after 'Starting grading workflow...': announce the grading agent
ResumeWorkflow ==
    /\ stream.pc = "y_workflow"
    /\ events' = Append(events, Status("Analyzing with grading agent...", "grading"))
    /\ stream' = [stream EXCEPT !.pc = "y_status", !.stage = "grading"]
    /\ UNCHANGED <<conversation_history, rateVars, obsVars>>
    /\ StreamFrame

\* a fresh agent generator: stream_process is called, nothing pulled yet
OpenAgentStream(r) ==
    [Logged(r, "call") EXCEPT !.pc = "await", !.llm_pulls = 0, !.agent_failed = FALSE,
              !.agent_queue = << >>,
              !.results_text = IF r.stage = "formatting"
                               THEN FormattingInput(r) ELSE r.user_input,
              !.fmt_called = @ \/ r.stage = "formatting"]

\* resumed after the status event of a stage: enter the streaming loop, or
\* take the non-streaming fallback of the stage
ResumeStatus ==
    /\ stream.pc = "y_status"
    /\ LET agent == StageAgent(stream)
       IN  IF HasStream(specialized_agents, agent)
           THEN /\ stream' = OpenAgentStream(stream)
                /\ UNCHANGED events
           ELSE IF stream.stage = "grading"
           THEN IF ~HasAgent(specialized_agents, agent)
                THEN Raise(stream, "NoneType has no attribute process_with_history")
                ELSE \E answer \in Responses
                          \cup {AgentErrorText(agent, e, << >>) : e \in Errors} :
                         /\ events' = Append(events, Chunk(answer, "grading"))
                         /\ stream' = [Logged(stream, "call") EXCEPT
                                           !.pc = "y_fallback_chunk",
                                           !.grading_output = answer,
                                           !.transport_failure = answer \notin Responses]
           ELSE \* formatting: format_grading_results, or the raw grading output
                LET input == FormattingInput(stream)
                IN  \E answer \in Responses
                         \cup {AgentErrorText(agent, e, input) : e \in Errors} :
                        LET formatted == IF HasAgent(specialized_agents, agent)
                                         THEN answer ELSE input
                            asked == IF HasAgent(specialized_agents, agent)
                                     THEN Logged(stream, "call") ELSE stream
                        IN  /\ events' = Append(events, Chunk(formatted, "formatting"))
                            /\ stream' = [asked EXCEPT !.pc = "y_fallback_chunk",
                                              !.formatted_output = formatted,
                                              !.full_response = formatted,
                                              !.results_text = input,
                                              !.fmt_called =
                                                  HasAgent(specialized_agents, agent),
                                              !.transport_failure =
                                                  @ \/ (HasAgent(specialized_agents, agent)
                                                        /\ answer \notin Responses)]
    /\ UNCHANGED <<conversation_history, rateVars, obsVars>>
    /\ StreamFrame

\* the orchestrator receives a chunk from the agent and yields it
YieldChunk(r, chunk) ==
    /\ events' = Append(events, Chunk(chunk, StageAgent(r)))
    /\ stream' = [Accumulate(r, chunk) EXCEPT !.pc = "y_chunk", !.chunk = chunk]

\* the agent's generator is exhausted: the loop ends and 'complete' is yielded
YieldComplete(r) ==
    /\ events' = Append(events, Complete(StageAgent(r)))
    /\ stream' = [r EXCEPT !.pc = "y_complete",
                           !.full_response = IF r.stage = "formatting"
                                             THEN r.formatted_output ELSE @]

\* the generator awaits the agent's stream_process, which awaits llm.astream:
\* a chunk arrives (an empty one is not passed on), the stream ends or raises
AgentAwait ==
    /\ stream.pc = "await"
    /\ LET r == stream
       IN  IF r.agent_queue /= << >>
           THEN YieldChunk([r EXCEPT !.agent_queue = Tail(@)], Head(r.agent_queue))
           ELSE IF r.agent_failed
           THEN YieldComplete(r)
           ELSE \/ \E content \in Responses :
                       /\ r.llm_pulls < MaxChunks
                       /\ IF content /= << >>
                          THEN YieldChunk([r EXCEPT !.llm_pulls = @ + 1], content)
                          ELSE /\ stream' = [r EXCEPT !.llm_pulls = @ + 1]
                               /\ UNCHANGED events
                \/ YieldComplete(r)
                \/ \E e \in Errors :
                       LET queue == AgentErrorChunks(StageAgent(r), e, r.results_text)
                       IN  YieldChunk([r EXCEPT !.agent_failed = TRUE,
                                                !.transport_failure = TRUE,
                                                !.agent_queue = Tail(queue)],
                                      Head(queue))
    /\ UNCHANGED <<conversation_history, rateVars, obsVars>>
    /\ StreamFrame

\* resumed after a chunk event: buffer the chunk, go on with the loop
ResumeChunk ==
    /\ stream.pc = "y_chunk"
    /\ conversation_history' = add_streaming_chunk(conversation_history, stream.chunk)
    /\ stream' = [Logged(stream, "add_streaming_chunk") EXCEPT
                      !.pc = "await", !.slot_log = Append(@, stream.chunk)]
    /\ UNCHANGED <<events, rateVars, obsVars>>
    /\ StreamFrame

\* resumed after the last event of a stage ('complete' or the fallback
\* chunk): the next stage of the pipeline, or Steps 7 and 8
ResumeStageEnd ==
    /\ stream.pc \in {"y_complete", "y_fallback_chunk"}
    /\ IF stream.stage = "grading"
       THEN /\ events' = Append(events, Status("Formatting results...", "formatting"))
            /\ stream' = [stream EXCEPT !.pc = "y_status", !.stage = "formatting"]
            /\ UNCHANGED <<conversation_history, rateVars, obsVars>>
       ELSE Finalize(stream)
    /\ StreamFrame

\* resumed after the error event: cancel the slot, track the failure
ResumeError ==
    /\ stream.pc = "y_error"
    /\ conversation_history' = ErrorCleanup(conversation_history)
    /\ metrics' = record_request(metrics, stream.agent_type,
                                 now - stream.start_time, FALSE, now)
    /\ monitor' = log_request(monitor, FALSE)
    /\ stream' = Finished([Logged(stream, "cancel_streaming_message") EXCEPT
                               !.outcome = "cancelled"])
    /\ UNCHANGED <<events, rateVars>>
    /\ StreamFrame

\* the consumer stops iterating after the event it was handed
ConsumerStops ==
    /\ stream.pc \in {"y_reject", "y_classifying", "y_workflow", "y_status",
                      "y_chunk", "y_complete", "y_fallback_chunk", "y_error"}
    /\ stream' = [stream EXCEPT !.pc = "abandoned", !.stopped_at = Len(events)]
    /\ UNCHANGED <<conversation_history, events, rateVars, obsVars>>
    /\ StreamFrame

AgentConfigs ==
    [AgentNames -> {"stream", "basic"}] \cup {EmptyDict}

InitStream ==
    /\ \E open \in BOOLEAN :
           conversation_history =
               IF open
               THEN add_streaming_chunk(
                        start_streaming_message(ConversationHistory(MaxLimit), "chat"),
                        <<"a">>)
               ELSE ConversationHistory(MaxLimit)
    /\ minLimit = MaxLimit
    /\ appended = << >>
    /\ now = 0
    /\ \E used \in {0, RateMaxCalls} :
           LET window == [i \in 1..used |-> 0]
           IN  /\ rate_limiter =
                      [RateLimiter(RateMaxCalls, RateWindow, TRUE) EXCEPT
                           !.calls = IF used = 0 THEN EmptyDict
                                     ELSE DictSet(EmptyDict, "default", window)]
               /\ admitted = [i \in Identifiers |->
                                  IF i = "default" THEN window ELSE << >>]
    /\ rl_result = NoResult
    /\ rl_reset = NoReset
    /\ specialized_agents \in AgentConfigs
    /\ metrics = EmptyDict
    /\ monitor = SystemMonitor
    /\ stream = IdleStream
    /\ events = << >>
    /\ ChatIdle

NextStream ==
    \/ StreamBegin
    \/ ResumeReject
    \/ ResumeClassifying
    \/ ResumeWorkflow
    \/ ResumeStatus
    \/ AgentAwait
    \/ ResumeChunk
    \/ ResumeStageEnd
    \/ ResumeError
    \/ ConsumerStops

SpecStream == InitStream /\ [][NextStream]_vars

(***************************************************************************)
(* SpecChat: MasterAgent.chat and the nodes of its graph.  chat() runs on  *)
(* the calling thread; an action is the code from one call of the remote   *)
(* model (or of the graph library) to the next.  Calls follow one another  *)
(* and the clock advances between them.                                    *)
(***************************************************************************)
MaxChatCalls == 1   \* chat() calls in one behaviour

ChatInputs == { << >>, <<Nul>>, <<"hi">>, <<"grade", "Explain">>, <<"<script>">> }

\* what llm.invoke answers the classification prompt with: response.content
ClassifierAnswers ==
    { <<"chat">>, <<Blank, "Grading", Blank>>, <<"ANALYSIS">>, <<"code_review">>,
      <<"essay">>, <<"grading", Blank, "task">>, << >> }
ValidTypes == {"chat", "analysis", "grading", "code_review"}

\* the model output taken as it is
TaskTypeUntrimmed(content) == content

\* task_type = response.content.strip().lower()
TaskType(content) == LowerText(Strip(content))

\* if task_type not in valid_types: task_type = "chat"
ValidOrChat(task_type) ==
    IF Len(task_type) = 1 /\ task_type[1] \in ValidTypes THEN task_type[1] ELSE "chat"

\* what the remote model answers an agent with
LLMAnswers == {<<"a">>, << >>}

\* what a call of the remote model raises
ChatErrors == {"timeout"}

NotesKeywords == {"explain", "notes", "clarify", "details"}

GraphNodes ==
    {"classify_task", "route_to_agent", "manage_data", "synthesize_response",
     "handle_error", "grading_workflow_entry", "route_to_grading",
     "route_to_formatting", "route_to_chat_notes"}

\* "I apologize, but I encountered an error: {error}"
Apology(error) == <<"I apologize, but I encountered an error:">> \o error

\* agent_responses[agent] = response on a dict kept in insertion order
PutResponse(responses, agent, response) ==
    IF \E i \in 1..Len(responses) : responses[i].agent = agent
    THEN [i \in 1..Len(responses) |->
              IF responses[i].agent = agent
              THEN [agent |-> agent, response |-> response] ELSE responses[i]]
    ELSE Append(responses, [agent |-> agent, response |-> response])

\* agent_responses.get(agent, '')
GetResponse(responses, agent) ==
    IF \E i \in 1..Len(responses) : responses[i].agent = agent
    THEN responses[CHOOSE i \in 1..Len(responses) : responses[i].agent = agent].response
    ELSE << >>

\* what the model call of an agent raises; the except clause of the formatting
\* agent tells a timeout from any other error
ErrorsOf(agent) ==
    IF agent = "formatting" THEN ChatErrors \cup {"connection"} ELSE ChatErrors

\* what a call of an agent's process_with_history / process can return: the
\* answer of the remote model, or the text the agent's except clause returns
AgentReturns(agent, input) ==
    {[failed |-> FALSE, text |-> answer, error |-> << >>] : answer \in LLMAnswers}
        \cup {[failed |-> TRUE, text |-> AgentErrorText(agent, e, input),
                error |-> <<e>>] : e \in ErrorsOf(agent)}

\* the request calls the remote model, itself or through the named agent
Called(c, agent) ==
    Logged([c EXCEPT !.llm_calls = @ + 1, !.agent_calls = Append(@, agent)], "call")

\* one stage of the call has failed: remembered for the properties
Failed(c, stage, message) ==
    IF c.failed = "none" THEN [c EXCEPT !.failed = stage, !.failure = message] ELSE c

\* the text handed to the formatting agent, were it the request itself
GradingOutputIsUserInput(state) == state.user_input

\* grading_output = state.get('agent_responses', {}).get('grading', '')
GradingOutput(state) == GetResponse(state.agent_responses, "grading")

\* any(keyword in user_input for keyword in ['explain', 'notes', ...])
NotesRequested(user_input) == ContainsAny(user_input, NotesKeywords)

\* the node put in front of the path
VisitFirst(workflow_path, node) == <<node>> \o workflow_path

\* state['workflow_path'].append(node)
Visit(workflow_path, node) == Append(workflow_path, node)

\* the response stored last
LastResponse(agent_responses) == agent_responses[Len(agent_responses)].response

\* primary_response = list(agent_responses.values())[0]
PrimaryOf(agent_responses) == agent_responses[1].response

_should_use_grading_workflow(state) ==
    IF state.error /= << >> THEN "handle_error"
    ELSE IF state.agent_type = "grading" THEN "grading_workflow_entry"
    ELSE "route_to_agent"

_should_manage_data(state) ==
    IF state.error /= << >> THEN "handle_error"
    ELSE IF data_manager.present THEN "manage_data"
    ELSE "synthesize_response"

ChatFrame == UNCHANGED <<appended, minLimit, fixedVars, streamVars>>

\* the frame after the node: its state, and the node the edge leads to
Goto(c, state, node) == [c EXCEPT !.state = state, !.pc = node]

\* a verdict of the limiter that is never read as a denial
DeniedNever(rate_check) == FALSE

\* if not rate_check["allowed"]
Denied(rate_check) == ~rate_check.allowed

\* chat(user_input) up to graph.invoke: Steps 1 to 5
ChatCall(limit) ==
    \E user_input \in ChatInputs :
        /\ chat.pc \in {"idle", "returned", "raised"}
        /\ chat.calls < limit
        /\ LET invalid == validate_input(user_input)
               clean == sanitize_input(user_input)
               rate == check_rate_limit(rate_limiter, "default", now)
               cache_context == <<str(Len(conversation_history.messages))>>
               cached == get(response_cache, clean, cache_context, now)
               c0 == [IdleChat EXCEPT
                          !.calls = chat.calls + 1,
                          !.raw_input = user_input,
                          !.start_time = now,
                          !.previous =
                              [raw_input |-> chat.raw_input,
                               start_time |-> chat.start_time,
                               pc |-> chat.pc, failed |-> chat.failed,
                               result |-> chat.result]]
               c1 == [c0 EXCEPT !.user_input = clean]
           IN  IF invalid /= "none"
               THEN /\ chat' = [c0 EXCEPT !.pc = "raised",
                                          !.raised = "InputValidationException",
                                          !.result = <<invalid>>]
                    /\ UNCHANGED <<conversation_history, rateVars, response_cache>>
               ELSE /\ rate_limiter' = rate.rl
                    /\ rl_result' = [identifier |-> "default", at |-> now,
                                     allowed |-> rate.allowed,
                                     retry_after |-> rate.retry_after]
                    /\ admitted' = IF rate.allowed /\ rate_limiter.enabled
                                   THEN [admitted EXCEPT !["default"] = Append(@, now)]
                                   ELSE admitted
                    /\ UNCHANGED rl_reset
                    /\ IF Denied(rate)
                       THEN /\ chat' = [c1 EXCEPT !.pc = "raised",
                                                  !.raised = "RateLimitException",
                                                  !.result = <<"Rate limit exceeded">>]
                            /\ UNCHANGED <<conversation_history, response_cache>>
                       ELSE /\ response_cache' = cached.cache
                            /\ IF cached.hit /\ cached.value /= << >>
                               THEN /\ chat' = [c1 EXCEPT !.pc = "returned",
                                                          !.cache_context = cache_context,
                                                          !.result = cached.value]
                                    /\ UNCHANGED conversation_history
                               ELSE /\ conversation_history' =
                                           AddUserMessage(conversation_history, clean, now)
                                    /\ chat' = Logged([c1 EXCEPT
                                                           !.pc = "classify_task",
                                                           !.cache_context = cache_context,
                                                           !.state = InitialState(clean)],
                                                      "add_user_message")
        /\ UNCHANGED <<now, obsVars, data_manager>>
        /\ ChatFrame

\* chat(), at most MaxChatCalls times
ChatBegin == ChatCall(MaxChatCalls)

\* what a node of the graph leaves alone
NodeFrame ==
    /\ UNCHANGED <<conversation_history, now, rateVars, obsVars, response_cache>>
    /\ ChatFrame

_classify_task ==
    /\ chat.pc = "classify_task"
    /\ LET state == chat.state
       IN  IF Strip(state.user_input) = << >>
           THEN LET s1 == [state EXCEPT !.error = <<"Empty input provided">>]
                IN  chat' = Goto(Failed(chat, "classification", s1.error), s1,
                                 _should_use_grading_workflow(s1))
           ELSE \/ \E content \in ClassifierAnswers :
                       LET task_type == ValidOrChat(TaskType(content))
                           s1 == [state EXCEPT !.task_classification = task_type,
                                               !.agent_type = task_type]
                       IN  chat' = Goto([Called(chat, "classifier") EXCEPT
                                             !.classified = [returned |-> TRUE,
                                                             content |-> content]],
                                        s1, _should_use_grading_workflow(s1))
                \/ \E e \in ChatErrors :
                       LET s1 == [state EXCEPT !.error = <<"Error classifying task:", e>>]
                       IN  chat' = Goto(Failed(Called(chat, "classifier"),
                                               "classification", <<e>>),
                                        s1, _should_use_grading_workflow(s1))
    /\ UNCHANGED data_manager
    /\ NodeFrame

_route_to_agent ==
    /\ chat.pc = "route_to_agent"
    /\ LET state == chat.state
           agent_type == state.agent_type
           called == Called(chat, IF HasAgent(specialized_agents, agent_type)
                                  THEN agent_type ELSE "master")
       IN  IF HasAgent(specialized_agents, agent_type)
           THEN \E r \in AgentReturns(agent_type, << >>) :
                    LET s1 == [state EXCEPT !.agent_responses =
                                   <<[agent |-> agent_type, response |-> r.text]>>]
                    IN  chat' = Goto(IF r.failed THEN Failed(called, "routing", r.error)
                                                 ELSE called,
                                     s1, _should_manage_data(s1))
           ELSE \/ \E answer \in LLMAnswers :
                       LET s1 == [state EXCEPT !.agent_responses =
                                      <<[agent |-> "master", response |-> answer]>>]
                       IN  chat' = Goto(called, s1, _should_manage_data(s1))
                \/ \E e \in ChatErrors :
                       LET s1 == [state EXCEPT !.error = <<"Error routing to agent:", e>>]
                       IN  chat' = Goto(Failed(called, "routing", <<e>>), s1,
                                        _should_manage_data(s1))
    /\ UNCHANGED data_manager
    /\ NodeFrame

_manage_data ==
    /\ chat.pc = "manage_data"
    /\ LET state == chat.state
       IN  IF data_manager.present
           THEN LET interaction_data ==
                        [user_input |-> state.user_input,
                         task_type |-> state.task_classification,
                         agent_responses |-> state.agent_responses]
                    stored == store_interaction(data_manager, interaction_data)
                    context == get_relevant_context(stored, state.user_input)
                IN  /\ data_manager' = stored
                    /\ chat' = Goto(chat, [state EXCEPT !.data_context = context],
                                    "synthesize_response")
           ELSE /\ chat' = Goto(chat, [state EXCEPT !.data_context =
                                          [relevant_interactions |-> 0]],
                                "synthesize_response")
                /\ UNCHANGED data_manager
    /\ NodeFrame

_synthesize_response ==
    /\ chat.pc = "synthesize_response"
    /\ LET state == chat.state
           n == state.data_context.relevant_interactions
       IN  IF state.agent_responses = << >>
           THEN LET s1 == [state EXCEPT !.error = <<"No agent responses to synthesize">>]
                IN  chat' = Goto(Failed(chat, "synthesis", s1.error), s1, "end")
           ELSE LET primary_response == PrimaryOf(state.agent_responses)
                    response == IF n > 0
                                THEN primary_response
                                         \o <<"[Context: Based on", str(n),
                                              "previous interactions]">>
                                ELSE primary_response
                IN  chat' = Goto(chat, [state EXCEPT !.response = response], "end")
    /\ UNCHANGED data_manager
    /\ NodeFrame

_handle_error ==
    /\ chat.pc = "handle_error"
    /\ chat' = Goto(chat, [chat.state EXCEPT !.response = Apology(chat.state.error)],
                    "end")
    /\ UNCHANGED data_manager
    /\ NodeFrame

_grading_workflow_entry ==
    /\ chat.pc = "grading_workflow_entry"
    /\ chat' = Goto(chat,
                    [chat.state EXCEPT
                         !.workflow_path = Visit(@, "grading_workflow_entry"),
                         !.current_agent = "grading",
                         !.formatted_output = << >>,
                         !.additional_notes = << >>],
                    "route_to_grading")
    /\ UNCHANGED data_manager
    /\ NodeFrame

_route_to_grading ==
    /\ chat.pc = "route_to_grading"
    /\ LET state == [chat.state EXCEPT !.workflow_path = Visit(@, "route_to_grading"),
                                       !.current_agent = "grading"]
       IN  IF ~HasAgent(specialized_agents, "grading")
           THEN LET s1 == [state EXCEPT !.error = <<"Grading agent not available">>]
                IN  chat' = Goto(Failed(chat, "grading", s1.error), s1,
                                 "route_to_formatting")
           ELSE \E r \in AgentReturns("grading", << >>) :
                    LET s1 == [state EXCEPT !.agent_responses =
                                   PutResponse(@, "grading", r.text)]
                        called == [Called(chat, "grading") EXCEPT
                                       !.grading = [called |-> TRUE, output |-> r.text]]
                    IN  chat' = Goto(IF r.failed THEN Failed(called, "grading", r.error)
                                                 ELSE called,
                                     s1, "route_to_formatting")
    /\ UNCHANGED data_manager
    /\ NodeFrame

_route_to_formatting ==
    /\ chat.pc = "route_to_formatting"
    /\ LET state == [chat.state EXCEPT !.workflow_path = Visit(@, "route_to_formatting"),
                                       !.current_agent = "formatting"]
           grading_output == GradingOutput(state)
       IN  IF ~HasAgent(specialized_agents, "formatting")
           THEN chat' = Goto(chat, [state EXCEPT !.formatted_output = grading_output],
                             "route_to_chat_notes")
           ELSE \E r \in AgentReturns("formatting", grading_output) :
                    LET s1 == [state EXCEPT !.formatted_output = r.text,
                                            !.agent_responses =
                                                PutResponse(@, "formatting", r.text)]
                        called == [Called(chat, "formatting") EXCEPT
                                       !.formatting = [called |-> TRUE,
                                                       input |-> grading_output,
                                                       output |-> r.text]]
                    IN  chat' = Goto(IF r.failed THEN Failed(called, "formatting", r.error)
                                                 ELSE called,
                                     s1, "route_to_chat_notes")
    /\ UNCHANGED data_manager
    /\ NodeFrame

_route_to_chat_notes ==
    /\ chat.pc = "route_to_chat_notes"
    /\ LET state == [chat.state EXCEPT !.workflow_path = Visit(@, "route_to_chat_notes"),
                                       !.current_agent = "chat"]
           entered == [chat EXCEPT !.notes =
                           [ran |-> TRUE,
                            agent_responses |-> chat.state.agent_responses,
                            additional_notes |-> chat.state.additional_notes]]
       IN  IF NotesRequested(state.user_input)
                  /\ HasAgent(specialized_agents, "chat")
           THEN \E r \in AgentReturns("chat", << >>) :
                    LET s1 == [state EXCEPT !.additional_notes = r.text,
                                            !.agent_responses =
                                                PutResponse(@, "chat", r.text)]
                        called == Called(entered, "chat")
                    IN  chat' = Goto(IF r.failed THEN Failed(called, "notes", r.error)
                                                 ELSE called,
                                     s1, "manage_data")
           ELSE chat' = Goto(entered, state, "manage_data")
    /\ UNCHANGED data_manager
    /\ NodeFrame

\* graph.invoke has returned: Steps 6 to 9 of chat()
ChatEnd ==
    /\ chat.pc = "end"
    /\ LET agent_type == chat.state.task_classification
           response == chat.state.response
       IN  /\ response_cache' = set(response_cache, chat.user_input, response,
                                    chat.cache_context, now)
           /\ conversation_history' =
                  add_assistant_message(conversation_history, response, agent_type, {}, now)
           /\ monitor' = record_token_usage(log_request(monitor, TRUE))
           /\ metrics' = record_request(metrics, agent_type, now - chat.start_time,
                                        TRUE, now)
           /\ chat' = [chat EXCEPT !.pc = "returned", !.agent_type = agent_type,
                                   !.result = response]
    /\ UNCHANGED <<now, rateVars, data_manager>>
    /\ ChatFrame

\* graph.invoke raises when it is called (every node catches its own
\* exceptions, the library's are not caught): the except clause of chat()
ChatExcept ==
    /\ chat.pc = "classify_task"
    /\ \E e \in ChatErrors :
           LET error_response == Apology(<<e>>)
           IN  /\ monitor' = log_request(monitor, FALSE)
               /\ metrics' = record_request(metrics, chat.agent_type,
                                            now - chat.start_time, FALSE, now)
               /\ conversation_history' =
                      add_assistant_message(conversation_history, error_response,
                                            "error", {}, now)
               /\ chat' = [Failed(chat, "graph", <<e>>) EXCEPT !.pc = "returned",
                                                              !.result = error_response]
    /\ UNCHANGED <<now, rateVars, response_cache, data_manager>>
    /\ ChatFrame

\* the clock advances between two calls
ChatTick ==
    /\ chat.pc \in {"idle", "returned", "raised"}
    /\ Tick

\* the memory load_from_disk restores: a full window saved by an earlier session
LoadedHistory ==
    [ConversationHistory(MaxLimit) EXCEPT
         !.messages = [i \in 1..MaxLimit |->
                          IF i % 2 = 1 THEN UserMessage(<<"hi">>, 0)
                          ELSE AssistantMessage(<<"a">>, "chat", {}, 0)]]

\* an orchestrator before its first chat(): _initialize_agents registered the
\* agents and the data manager, or neither; _load_conversation_history
\* restored a saved window, or nothing; the calls the session made through
\* chat_streaming may have used the limiter up
InitChat ==
    /\ \E loaded \in BOOLEAN :
           conversation_history =
               IF loaded THEN LoadedHistory ELSE ConversationHistory(MaxLimit)
    /\ minLimit = MaxLimit
    /\ appended = << >>
    /\ now = 0
    /\ \E used \in {0, RateMaxCalls} :
           LET window == [i \in 1..used |-> 0]
           IN  /\ rate_limiter =
                      [RateLimiter(RateMaxCalls, RateWindow, TRUE) EXCEPT
                           !.calls = IF used = 0 THEN EmptyDict
                                     ELSE DictSet(EmptyDict, "default", window)]
               /\ admitted = [i \in Identifiers |->
                                  IF i = "default" THEN window ELSE << >>]
    /\ rl_result = NoResult
    /\ rl_reset = NoReset
    /\ \E imported \in BOOLEAN :
           /\ specialized_agents = IF imported THEN [a \in AgentNames |-> "stream"]
                                   ELSE EmptyDict
           /\ data_manager = IF imported THEN DataManager ELSE NoDataManager
    /\ metrics = EmptyDict
    /\ monitor = SystemMonitor
    /\ stream = IdleStream
    /\ events = << >>
    /\ response_cache = ResponseCache(CacheMaxSize, CacheTTL, TRUE)
    /\ cache_log = NoCacheOp
    /\ threads = NoThreads
    /\ chat = IdleChat

NextChat ==
    \/ ChatBegin
    \/ _classify_task
    \/ _route_to_agent
    \/ _manage_data
    \/ _synthesize_response
    \/ _handle_error
    \/ _grading_workflow_entry
    \/ _route_to_grading
    \/ _route_to_formatting
    \/ _route_to_chat_notes
    \/ ChatEnd
    \/ ChatExcept
    \/ ChatTick

SpecChat == InitChat /\ [][NextChat]_vars

(***************************************************************************)
(* C1                                                                      *)
(***************************************************************************)
\* C1 (as stated): the memory never holds more than max_messages messages,
\* and whenever more than max_messages messages were appended since the last
\* clear, the retained messages are exactly the last max_messages appended,
\* in their original order.
C1_AsStated ==
    /\ Len(conversation_history.messages) <= conversation_history.max_messages
    /\ Len(appended) > conversation_history.max_messages =>
           conversation_history.messages =
               LastN(appended, conversation_history.max_messages)

\* C1 (amended): the memory never holds more than max_messages messages; the
\* retained messages are always the most recently appended ones in their
\* original order; and when more than max_messages messages were appended
\* since the last clear and the limit has not been below its present value
\* since then, they are exactly the last max_messages appended.
C1_RollingWindow ==
    LET h == conversation_history
    IN  /\ Len(h.messages) <= h.max_messages
        /\ h.messages = LastN(appended, Len(h.messages))
        /\ (Len(appended) > h.max_messages /\ minLimit >= h.max_messages) =>
               h.messages = LastN(appended, h.max_messages)

\* C1 witness: more messages were appended than the window holds, and the
\* window holds exactly the newest max_messages of them.
C1_Witness ==
    /\ Len(appended) > conversation_history.max_messages
    /\ minLimit >= conversation_history.max_messages
    /\ Len(conversation_history.messages) = conversation_history.max_messages
    /\ appended[1] /= appended[Len(appended)]

(***************************************************************************)
(* C10                                                                     *)
(***************************************************************************)
\* the calls admitted for the identifier before the last check_rate_limit call
AdmittedBefore ==
    LET log == admitted[rl_result.identifier]
    IN  IF rl_result.allowed THEN SubSeq(log, 1, Len(log) - 1) ELSE log

\* how many of the times in seq lie in the window (t - time_window, t]
CountInWindow(seq, t) ==
    Cardinality({i \in 1..Len(seq) :
        /\ seq[i] > t - rate_limiter.time_window * TicksPerSecond
        /\ seq[i] <= t})

\* C10: with rate limiting enabled, a check_rate_limit call at time now is
\* admitted if and only if fewer than max_calls of the calls admitted before
\* it (since the identifier's last reset) are later than now - time_window;
\* an admitted call is recorded and a denied one is not, so the stored window
\* is exactly the admitted calls still inside the window; at most max_calls
\* calls per identifier are admitted within any trailing window; and a call
\* made after the window has passed is admitted.
C10_SlidingWindow ==
    rate_limiter.enabled =>
        /\ rl_result.identifier \in Identifiers =>
               LET id == rl_result.identifier
                   t == rl_result.at
                   before == AdmittedBefore
               IN  /\ rl_result.allowed <=>
                          CountInWindow(before, t) < rate_limiter.max_calls
                   /\ id \in DOMAIN rate_limiter.calls
                   /\ rate_limiter.calls[id] = InWindow(rate_limiter, admitted[id], t)
                   /\ CountInWindow(before, t) = 0 => rl_result.allowed
        /\ \A id \in Identifiers : \A e \in 0..MaxTime :
               CountInWindow(admitted[id], e) <= rate_limiter.max_calls

\* C10 witness: an identifier that had reached its limit is admitted again
\* once the window has passed (more than max_calls admissions in all).
C10_Witness ==
    /\ rate_limiter.enabled
    /\ rl_result.identifier \in Identifiers
    /\ rl_result.allowed
    /\ Len(admitted[rl_result.identifier]) > rate_limiter.max_calls
    /\ CountInWindow(AdmittedBefore, rl_result.at) = 0

(***************************************************************************)
(* C2 - C7: chat_streaming                                                 *)
(***************************************************************************)
\* the contents of the chunk events carrying the agent, in order of arrival
RECURSIVE ChunksOf(_, _)
ChunksOf(evs, agent) ==
    IF evs = << >> THEN << >>
    ELSE IF Head(evs).type = "chunk" /\ Head(evs).agent = agent
         THEN <<Head(evs).content>> \o ChunksOf(Tail(evs), agent)
         ELSE ChunksOf(Tail(evs), agent)

EventAgents == {events[i].agent : i \in 1..Len(events)} \ {NoAgent}

Terminals(agent) ==
    {i \in 1..Len(events) :
        events[i].type \in {"complete", "error"} /\ events[i].agent = agent}

\* C2: when the consumer stops iterating after an event once the streaming
\* slot has been opened, the slot is cancelled (not left open), no further
\* pipeline step is started (no further event is produced) and no further
\* chunk is appended to the slot.
C2_AbandonedStreamIsCleanedUp ==
    (stream.pc = "abandoned" /\ stream.slot_opened) =>
        /\ ~is_streaming(conversation_history)
        /\ conversation_history.streaming_chunks = << >>
        /\ Len(events) = stream.stopped_at

\* C3: every failure after the streaming slot was opened, a transport
\* failure of the remote model during an agent's stream included, is
\* surfaced as an Error event, and the slot is cancelled and not finalized:
\* no assistant message built from the partial stream is appended.
C3_FailureIsSurfacedAndCancelled ==
    (stream.pc = "done" /\ stream.slot_opened /\ stream.transport_failure) =>
        /\ \E i \in 1..Len(events) : events[i].type = "error"
        /\ stream.outcome = "cancelled"
        /\ ~is_streaming(conversation_history)
        /\ conversation_history.messages = stream.msgs_at_open

\* C4: for every run of chat_streaming that opens the streaming slot and is
\* consumed until the generator ends, the slot is closed when the generator
\* ends, and the text it buffered was either appended as exactly one
\* assistant message (finalize) or discarded with no message (cancel).
C4_SlotIsFinalizedOrCancelled ==
    (stream.pc = "done" /\ stream.slot_opened) =>
        LET h == conversation_history
            message == AssistantMessage(Concat(stream.slot_log), stream.agent_type,
                                        {"was_streamed"}, now)
        IN  /\ ~is_streaming(h)
            /\ h.streaming_chunks = << >>
            /\ \/ /\ stream.outcome = "finalized"
                  /\ h.messages =
                         LastN(Append(stream.msgs_at_open, message), h.max_messages)
               \/ /\ stream.outcome = "cancelled"
                  /\ h.messages = stream.msgs_at_open

\* C4 witness: a run that buffered two chunks has ended and finalized them.
C4_Witness ==
    /\ stream.pc = "done"
    /\ stream.slot_opened
    /\ stream.outcome = "finalized"
    /\ Len(stream.slot_log) >= 2
    /\ ~is_streaming(conversation_history)

\* C5: in the event sequence of a finished chat_streaming run, every agent
\* name that appears on an event gets exactly one terminal event, Complete
\* or Error.
C5_OneTerminalEventPerAgent ==
    stream.pc = "done" =>
        \A agent \in EventAgents : Cardinality(Terminals(agent)) = 1

\* C6: for each agent name, the first Chunk event carrying it is preceded by
\* a Status event carrying it, on the streaming path and on the
\* non-streaming fallback path.
C6_StatusBeforeFirstChunk ==
    \A i \in 1..Len(events) :
        events[i].type = "chunk" =>
            \E j \in 1..(i - 1) :
                events[j].type = "status" /\ events[j].agent = events[i].agent

\* C7: in the streaming grading pipeline every event carrying agent
\* 'grading' precedes every event carrying agent 'formatting', and the
\* formatting agent is given the complete concatenated grading output.
C7_GradingBeforeFormatting ==
    /\ \A i, j \in 1..Len(events) :
           (events[i].agent = "grading" /\ events[j].agent = "formatting") => i < j
    /\ stream.fmt_called =>
           stream.results_text = Concat(ChunksOf(events, "grading"))

\* C7 witness: a finished pipeline whose grading agent streamed two different
\* chunks and whose formatting agent streamed some.
C7_Witness ==
    /\ stream.pc = "done"
    /\ stream.fmt_called
    /\ Len(ChunksOf(events, "grading")) = 2
    /\ ChunksOf(events, "grading")[1] /= ChunksOf(events, "grading")[2]
    /\ ChunksOf(events, "formatting") /= << >>

(***************************************************************************)
(* C8, C9: chat                                                            *)
(***************************************************************************)
\* the call of the frame has ended: chat() returned or raised
ChatOver == chat.pc \in {"returned", "raised"}

\* the session had max_calls admitted calls inside the window when chat()
\* was called
OverLimit ==
    LET rl == chat.before.rate_limiter
        calls == IF "default" \in DOMAIN rl.calls THEN rl.calls["default"] ELSE << >>
        recent == {i \in 1..Len(calls) :
                      calls[i] > chat.start_time - rl.time_window * TicksPerSecond}
    IN  rl.enabled /\ Cardinality(recent) >= rl.max_calls

\* memory, cache (entries and counters) and metrics are as chat() found them
RejectionLeftNoTrace ==
    /\ chat.llm_calls = 0
    /\ conversation_history = chat.before.conversation_history
    /\ response_cache = chat.before.response_cache
    /\ metrics = chat.before.metrics
    /\ monitor = chat.before.monitor

\* C8: chat() rejects an invalid input with InputValidationException and an
\* over-limit caller with RateLimitException before any call of the remote
\* model; the rejected call leaves conversation memory, the response cache
\* (entries, hit and miss counters) and the metrics unchanged, and an input
\* rejected by validation leaves the rate limiter unchanged too.
C8_RejectedBeforeAnyWork ==
    ChatOver =>
        LET invalid == validate_input(chat.raw_input) /= "none"
        IN  /\ invalid =>
                   /\ chat.raised = "InputValidationException"
                   /\ RejectionLeftNoTrace
                   /\ rate_limiter = chat.before.rate_limiter
            /\ (~invalid /\ OverLimit) =>
                   /\ chat.raised = "RateLimitException"
                   /\ RejectionLeftNoTrace

\* C8 witness: a call of a session with a restored memory, made a while
\* after the session used the limiter up, is rejected by the limiter.
C8_Witness ==
    /\ chat.pc = "raised"
    /\ chat.raised = "RateLimitException"
    /\ chat.start_time > 0
    /\ OverLimit
    /\ conversation_history.messages /= << >>

IsApology(text) ==
    /\ text /= << >>
    /\ text[1] \in {"I apologize, but I encountered an error:", "apology"}

\* C9: a chat() call that passed validation and rate limiting and failed at
\* some stage returns an apology that embeds the underlying error message,
\* and that apology is the assistant message appended to conversation
\* memory, with agent type 'error'.
C9_FailureIsRecordedAsError ==
    (chat.pc = "returned" /\ chat.failed /= "none") =>
        LET messages == conversation_history.messages
            last == messages[Len(messages)]
        IN  /\ IsApology(chat.result)
            /\ \A i \in 1..Len(chat.failure) :
                   \E j \in 1..Len(chat.result) : chat.result[j] = chat.failure[i]
            /\ messages /= << >>
            /\ last.role = "assistant"
            /\ last.content = chat.result
            /\ last.agent_type = "error"

(***************************************************************************)
(* C11 - C12: RateLimiter.check_rate_limit and reset                       *)
(***************************************************************************)
\* C11: every call denied by check_rate_limit returns retry_after > 0,
\* whatever the distance between the clock and the oldest call still inside
\* the window.
C11_DeniedHasPositiveRetryAfter ==
    (rl_result.identifier \in Identifiers /\ ~rl_result.allowed) =>
        rl_result.retry_after > 0

\* the window stored for the identifier, if any
StoredWindow(rl, identifier) ==
    [present |-> identifier \in DOMAIN rl.calls,
     calls |-> IF identifier \in DOMAIN rl.calls THEN rl.calls[identifier]
               ELSE << >>]

\* the identifier the step has acted on: that of the reset when the step is
\* a reset (it leaves no result), that of the check otherwise
ActedOn ==
    IF rl_result' = NoResult THEN rl_reset'.identifier
    ELSE rl_result'.identifier

\* C12: reset(id) removes the whole window of id, so that the next
\* check_rate_limit(id) is admitted even if id was at its limit, and neither
\* reset(id) nor check_rate_limit(id) changes the window of any other
\* identifier.
C12_ResetClearsOnlyItsWindow ==
    [][ /\ \A j \in Identifiers \ {ActedOn} :
               StoredWindow(rate_limiter', j) = StoredWindow(rate_limiter, j)
        /\ (rl_reset'.identifier \in Identifiers /\ ~rl_reset'.followed) =>
               ~StoredWindow(rate_limiter', rl_reset'.identifier).present
        /\ ( /\ rl_reset'.identifier \in Identifiers
             /\ rl_reset'.followed
             /\ rl_result'.identifier = rl_reset'.identifier ) =>
               /\ rl_result'.allowed
               /\ rate_limiter'.enabled =>
                      StoredWindow(rate_limiter', rl_reset'.identifier).calls
                          = <<rl_result'.at>>
      ]_vars

\* C12 witness: an identifier that was at its limit has been reset, and the
\* check that followed was admitted while the other identifier keeps a window.
C12_Witness ==
    /\ rl_reset.identifier \in Identifiers
    /\ rl_reset.at_limit
    /\ rl_reset.followed
    /\ rl_result.identifier = rl_reset.identifier
    /\ rl_result.allowed
    /\ \E j \in Identifiers \ {rl_reset.identifier} :
           /\ StoredWindow(rate_limiter, j).present
           /\ StoredWindow(rate_limiter, j).calls /= << >>

(***************************************************************************)
(* SpecCache: one ResponseCache under get, set and clear while the clock   *)
(* advances.  cache_log keeps, beside the last call and what it returned,  *)
(* what an observer of the calls knows: the value and time of the last     *)
(* set of every key not evicted or cleared since (sets), the keys in the   *)
(* order of their last use (used), and how many gets returned a value      *)
(* (returned) or nothing (absent) since the last clear.                    *)
(***************************************************************************)
MaxCacheGets == 2   \* get calls between two clears
MaxCacheTime == 2   \* last clock tick of the cache under check

\* the (user_input, context) pairs the callers ask for
CacheQueries ==
    { [user_input |-> <<"a">>, context |-> << >>],
      [user_input |-> <<"a">>, context |-> <<"1">>],
      [user_input |-> <<"b">>, context |-> << >>] }
CacheResponses == {<<"x">>, <<"y">>}

KeysOf(c) == {c.cache[i].key : i \in 1..Len(c.cache)}

\* the sequence without the key
RECURSIVE Without(_, _)
Without(seq, keys) ==
    IF seq = << >> THEN << >>
    ELSE IF Head(seq) \in keys THEN Without(Tail(seq), keys)
    ELSE <<Head(seq)>> \o Without(Tail(seq), keys)

\* the function without the keys
Restrict(d, keys) == [x \in DOMAIN d \ keys |-> d[x]]

CacheFrame ==
    UNCHANGED <<memVars, rateVars, specialized_agents, threads, obsVars,
                streamVars, data_manager, chat>>

\* what the observer keeps of cache_log once the call is over
Observed(log) ==
    [NoCacheOp EXCEPT !.sets = log.sets, !.used = log.used,
                      !.returned = log.returned, !.absent = log.absent]

\* the clock advances between two calls
CacheTick ==
    /\ now < MaxCacheTime
    /\ now' = now + 1
    /\ cache_log' = Observed(cache_log)
    /\ UNCHANGED response_cache
    /\ CacheFrame

CacheGet ==
    \E q \in CacheQueries :
        LET c == response_cache
            user_input == q.user_input
            context == q.context
            key == _generate_key(user_input, context)
            r == get(c, user_input, context, now)
            gone == KeysOf(c) \ KeysOf(r.cache)
        IN  /\ cache_log.returned + cache_log.absent < MaxCacheGets
            /\ response_cache' = r.cache
            /\ cache_log' =
                   [cache_log EXCEPT
                        !.op = "get", !.key = key, !.at = now,
                        !.hit = r.hit, !.value = r.value,
                        !.present_before = key \in KeysOf(c),
                        !.size_before = Len(c.cache),
                        !.counted_before = c.hits + c.misses,
                        !.at_capacity = AtCapacity(c),
                        !.evicted = {}, !.victim = {},
                        !.used = IF r.hit THEN Append(Without(@, {key}), key)
                                 ELSE Without(@, gone),
                        !.returned = IF r.hit THEN @ + 1 ELSE @,
                        !.absent = IF r.hit THEN @ ELSE @ + 1]
            /\ UNCHANGED now
            /\ CacheFrame

CacheSet ==
    \E q \in CacheQueries, response \in CacheResponses :
        LET c == response_cache
            user_input == q.user_input
            context == q.context
            key == _generate_key(user_input, context)
            after == set(c, user_input, response, context, now)
            gone == KeysOf(c) \ KeysOf(after)
        IN  /\ response_cache' = after
            /\ cache_log' =
                   [cache_log EXCEPT
                        !.op = "set", !.key = key, !.at = now,
                        !.hit = FALSE, !.value = response,
                        !.present_before = key \in KeysOf(c),
                        !.size_before = Len(c.cache),
                        !.counted_before = c.hits + c.misses,
                        !.at_capacity = AtCapacity(c),
                        !.evicted = gone,
                        !.victim = IF cache_log.used = << >> THEN {}
                                   ELSE {Head(cache_log.used)},
                        !.sets = IF c.enabled
                                 THEN DictSet(Restrict(@, gone), key,
                                              [value |-> response, at |-> now])
                                 ELSE @,
                        !.used = IF c.enabled
                                 THEN Append(Without(@, gone \cup {key}), key)
                                 ELSE @]
            /\ UNCHANGED now
            /\ CacheFrame

CacheClear ==
    /\ cache_log.op /= "clear"
    /\ response_cache' = clear(response_cache)
    /\ cache_log' = [NoCacheOp EXCEPT
                         !.op = "clear", !.at = now,
                         !.size_before = Len(response_cache.cache),
                         !.counted_before =
                             response_cache.hits + response_cache.misses]
    /\ UNCHANGED now
    /\ CacheFrame

InitCache ==
    /\ conversation_history = ConversationHistory(MaxLimit)
    /\ minLimit = MaxLimit
    /\ appended = << >>
    /\ now = 0
    /\ RateIdle
    /\ specialized_agents = [a \in AgentNames |-> "stream"]
    /\ metrics = EmptyDict
    /\ monitor = SystemMonitor
    /\ stream = IdleStream
    /\ events = << >>
    /\ \E enabled \in BOOLEAN, max_size \in {CacheMaxSize - 1, CacheMaxSize} :
           response_cache = ResponseCache(max_size, CacheTTL, enabled)
    /\ data_manager = DataManager
    /\ cache_log = NoCacheOp
    /\ threads = NoThreads
    /\ chat = IdleChat

NextCache ==
    \/ CacheTick
    \/ CacheGet
    \/ CacheSet
    \/ CacheClear

SpecCache == InitCache /\ [][NextCache]_vars

(***************************************************************************)
(* C13 - C16: ResponseCache                                                *)
(***************************************************************************)
\* the last get asked for a key that had been set, and neither evicted nor
\* cleared since, less than ttl before the get
SetAndLive ==
    /\ cache_log.key \in DOMAIN cache_log.sets
    /\ cache_log.at - cache_log.sets[cache_log.key].at
           < response_cache.ttl * TicksPerSecond

C14_EvictsLeastRecentlyUsed ==
    (cache_log.op = "set" /\ cache_log.at_capacity) =>
        cache_log.evicted \subseteq cache_log.victim

\* C15: after any sequence of get, set and clear the cache holds at most
\* max_size entries, and the keys holding a value are the keys holding an
\* insertion timestamp.
C15_SizeAndTimestamps ==
    /\ Len(response_cache.cache) <= response_cache.max_size
    /\ KeysOf(response_cache) = DOMAIN response_cache.timestamps
    /\ Cardinality(KeysOf(response_cache)) = Len(response_cache.cache)

\* C15 witness: a set at capacity has evicted an entry and stored its own.
C15_Witness ==
    /\ cache_log.op = "set"
    /\ cache_log.at_capacity
    /\ ~cache_log.present_before
    /\ cache_log.evicted /= {}
    /\ Len(response_cache.cache) = response_cache.max_size

\* C16: with the cache enabled, every get increments exactly one of hits
\* (a value was returned) and misses (nothing was returned), set changes
\* neither, and both keep their values until clear resets them to zero
\* together with the entries: at any time hits and misses count the gets
\* since the last clear that returned a value and that returned nothing.
C16_CountersFollowGets ==
    response_cache.enabled =>
        /\ response_cache.hits = cache_log.returned
        /\ response_cache.misses = cache_log.absent
        /\ cache_log.op = "clear" =>
               /\ response_cache.hits = 0
               /\ response_cache.misses = 0
               /\ response_cache.cache = << >>

\* C16 witness: the cache has been cleared after it had counted its gets
\* and held an entry.
C16_Witness ==
    /\ response_cache.enabled
    /\ cache_log.op = "clear"
    /\ cache_log.size_before > 0
    /\ cache_log.counted_before = MaxCacheGets

(***************************************************************************)
(* SpecChatTwice: chat() called again on the same MasterAgent.             *)
(***************************************************************************)
MaxRepeatedCalls == 2   \* chat() calls in one behaviour of SpecChatTwice

ChatAgain == ChatCall(MaxRepeatedCalls)

NextChatTwice ==
    \/ ChatAgain
    \/ _classify_task
    \/ _route_to_agent
    \/ _manage_data
    \/ _synthesize_response
    \/ _handle_error
    \/ _grading_workflow_entry
    \/ _route_to_grading
    \/ _route_to_formatting
    \/ _route_to_chat_notes
    \/ ChatEnd
    \/ ChatExcept
    \/ ChatTick

SpecChatTwice == InitChat /\ [][NextChatTwice]_vars

(***************************************************************************)
(* C17 - C18: chat() and the response cache                                *)
(***************************************************************************)
\* the call has passed validation and the limiter: it has looked the cache up
LookedUp ==
    /\ chat.pc /= "idle"
    /\ chat.raised \notin {"InputValidationException", "RateLimitException"}

\* the key of the call: its sanitized input and its context token
ChatKey == _generate_key(chat.user_input, chat.cache_context)

\* when the call began, the cache held a live entry for its key (every entry
\* is the response an earlier call has stored at Step 7)
CachedAndLive ==
    LET c == chat.before.response_cache
    IN  /\ c.enabled
        /\ ChatKey \in KeysOf(c)
        /\ ~Expired(c, ChatKey, chat.start_time)

\* the response the cache held for the key of the call
CachedResponse ==
    LET c == chat.before.response_cache
    IN  c.cache[KeyIndex(c.cache, ChatKey)].response

\* C17: a chat() call whose (sanitized input, context token) pair was cached
\* by an earlier successful call, the entry being still live, returns the
\* cached response as a cache hit and calls the remote model for nothing,
\* classification and agents included.
C17_CachedPairIsServedFromCache ==
    (LookedUp /\ CachedAndLive) =>
        /\ chat.pc = "returned"
        /\ chat.result = CachedResponse
        /\ chat.llm_calls = 0
        /\ response_cache.hits = chat.before.response_cache.hits + 1

\* the call repeats the input of the call before it, which returned its
\* response less than ttl ago
RepeatsLastCall ==
    /\ chat.calls >= 2
    /\ chat.raw_input = chat.previous.raw_input
    /\ chat.previous.pc = "returned"
    /\ chat.previous.failed = "none"
    /\ chat.start_time - chat.previous.start_time
           < response_cache.ttl * TicksPerSecond

\* C18: with the cache enabled, a chat() call that follows within ttl a call
\* with the same input on the same MasterAgent is served from the response
\* cache: the cache records a hit and the workflow is not run again.
C18_RepeatedInputIsServedFromCache ==
    (LookedUp /\ RepeatsLastCall /\ response_cache.enabled) =>
        /\ chat.pc = "returned"
        /\ chat.llm_calls = 0
        /\ response_cache.hits = chat.before.response_cache.hits + 1

(***************************************************************************)
(* SpecRecord: metrics_collector, the process-wide MetricsCollector, while *)
(* several requests run record_request in threads of their own.  No lock   *)
(* is taken: a thread may be preempted between the load and the store of   *)
(* an augmented assignment.  Each thread makes one call.                   *)
(***************************************************************************)
MaxThreads == 2   \* requests in flight

Threads == 1..MaxThreads
RecordedTypes == {"chat", "grading"}

\* the frame of a request that has not called yet
IdleThread ==
    [pc |-> "idle", agent_type |-> "unknown", identifier |-> "none",
     success |-> TRUE, loaded |-> 0, window |-> << >>, allowed |-> TRUE, at |-> 0]

RecordFrame ==
    UNCHANGED <<memVars, rateVars, specialized_agents, cache_log, monitor,
                streamVars, chatVars, now>>

\* the thread goes on at pc with its locals updated
Resume(t, frame) == threads' = [threads EXCEPT ![t] = frame]

\* metric = self.metrics[agent_type]: the defaultdict creates a missing entry
RecordCall(t) ==
    /\ threads[t].pc = "idle"
    /\ \E agent_type \in RecordedTypes, success \in BOOLEAN :
           /\ metrics' = IF agent_type \in DOMAIN metrics THEN metrics
                         ELSE DictSet(metrics, agent_type, NewMetric)
           /\ Resume(t, [threads[t] EXCEPT !.pc = "load_count",
                                           !.agent_type = agent_type,
                                           !.success = success])
    /\ RecordFrame

\* metric["count"] += 1: the load
LoadCount(t) ==
    /\ threads[t].pc = "load_count"
    /\ Resume(t, [threads[t] EXCEPT
                      !.pc = "store_count",
                      !.loaded = metrics[threads[t].agent_type].count])
    /\ UNCHANGED metrics
    /\ RecordFrame

\* metric["count"] += 1: the store; then total_duration and last_called
StoreCount(t) ==
    /\ threads[t].pc = "store_count"
    /\ metrics' = [metrics EXCEPT ![threads[t].agent_type] =
                       [@ EXCEPT !.count = threads[t].loaded + 1,
                                 !.total_duration = @ + 1,
                                 !.last_called = now]]
    /\ Resume(t, [threads[t] EXCEPT
                      !.pc = IF threads[t].success THEN "append_history"
                             ELSE "load_errors"])
    /\ RecordFrame

\* metric["errors"] += 1: the load
LoadErrors(t) ==
    /\ threads[t].pc = "load_errors"
    /\ Resume(t, [threads[t] EXCEPT
                      !.pc = "store_errors",
                      !.loaded = metrics[threads[t].agent_type].errors])
    /\ UNCHANGED metrics
    /\ RecordFrame

\* metric["errors"] += 1: the store
StoreErrors(t) ==
    /\ threads[t].pc = "store_errors"
    /\ metrics' = [metrics EXCEPT ![threads[t].agent_type] =
                       [@ EXCEPT !.errors = threads[t].loaded + 1]]
    /\ Resume(t, [threads[t] EXCEPT !.pc = "append_history"])
    /\ RecordFrame

\* self.request_history.append(...), and the call returns
RecordReturn(t) ==
    /\ threads[t].pc = "append_history"
    /\ Resume(t, [threads[t] EXCEPT !.pc = "returned"])
    /\ UNCHANGED metrics
    /\ RecordFrame

RECURSIVE SumOf(_, _)
SumOf(m, field) ==
    IF DOMAIN m = {} THEN 0
    ELSE LET k == CHOOSE k \in DOMAIN m : TRUE
         IN  m[k][field] + SumOf(DictDel(m, k), field)

\* get_metrics: the totals and the counters of every agent type
get_metrics(m) ==
    [total_requests |-> SumOf(m, "count"),
     total_errors |-> SumOf(m, "errors"),
     agents |-> [a \in DOMAIN m |->
                    [request_count |-> m[a].count, error_count |-> m[a].errors]]]

InitRecord ==
    /\ conversation_history = ConversationHistory(MaxLimit)
    /\ minLimit = MaxLimit
    /\ appended = << >>
    /\ now = 0
    /\ RateIdle
    /\ specialized_agents = [a \in AgentNames |-> "stream"]
    /\ metrics = EmptyDict
    /\ monitor = SystemMonitor
    /\ stream = IdleStream
    /\ events = << >>
    /\ response_cache = ResponseCache(CacheMaxSize, CacheTTL, TRUE)
    /\ data_manager = DataManager
    /\ cache_log = NoCacheOp
    /\ threads = [t \in Threads |-> IdleThread]
    /\ chat = IdleChat

NextRecord ==
    \E t \in Threads :
        \/ RecordCall(t)
        \/ LoadCount(t)
        \/ StoreCount(t)
        \/ LoadErrors(t)
        \/ StoreErrors(t)
        \/ RecordReturn(t)

SpecRecord == InitRecord /\ [][NextRecord]_vars

(***************************************************************************)
(* C19: MetricsCollector.record_request under concurrency                  *)
(***************************************************************************)
\* the calls made for the agent type, and those of them that failed
CallsFor(a) == {t \in Threads : threads[t].agent_type = a}
FailuresFor(a) == {t \in CallsFor(a) : ~threads[t].success}

AllReturned == \A t \in Threads : threads[t].pc = "returned"

\* C19: when several requests in flight run record_request concurrently,
\* for the same agent type included, no update is lost: once all calls have
\* returned, the count of each agent type is the number of calls made for
\* it, its error count the number of those with success = false, and
\* total_requests the number of all calls.
C19_NoUpdateIsLost ==
    AllReturned =>
        LET report == get_metrics(metrics)
        IN  /\ \A a \in DOMAIN report.agents :
                   /\ report.agents[a].request_count = Cardinality(CallsFor(a))
                   /\ report.agents[a].error_count = Cardinality(FailuresFor(a))
            /\ report.total_requests = MaxThreads

(***************************************************************************)
(* SpecLimit: one RateLimiter while several requests run check_rate_limit  *)
(* in threads of their own.  No lock is taken: a thread may be preempted   *)
(* between any two statements of the method.  Each thread makes one call;  *)
(* the limiter may have admitted calls before.                             *)
(***************************************************************************)
LimitFrame ==
    UNCHANGED <<memVars, rl_result, rl_reset, specialized_agents, cache_log,
                obsVars, streamVars, chatVars, now>>

\* now = time.time(); if identifier not in self.calls: self.calls[identifier] = []
LimitCall(t) ==
    /\ threads[t].pc = "idle"
    /\ rate_limiter.enabled
    /\ \E identifier \in Identifiers :
           /\ rate_limiter' =
                  IF identifier \in DOMAIN rate_limiter.calls THEN rate_limiter
                  ELSE [rate_limiter EXCEPT
                            !.calls = DictSet(@, identifier, << >>)]
           /\ threads' = [threads EXCEPT ![t] =
                              [@ EXCEPT !.pc = "filter", !.identifier = identifier,
                                        !.at = now]]
    /\ UNCHANGED admitted
    /\ LimitFrame

\* [call_time for call_time in self.calls[identifier] if call_time > now - ...]
LimitFilter(t) ==
    /\ threads[t].pc = "filter"
    /\ threads' = [threads EXCEPT ![t] =
                       [@ EXCEPT !.pc = "bind",
                                 !.window =
                                     InWindow(rate_limiter,
                                              rate_limiter.calls[threads[t].identifier],
                                              threads[t].at)]]
    /\ UNCHANGED <<rate_limiter, admitted>>
    /\ LimitFrame

\* self.calls[identifier] = the filtered list
LimitBind(t) ==
    /\ threads[t].pc = "bind"
    /\ rate_limiter' = [rate_limiter EXCEPT
                            !.calls[threads[t].identifier] = threads[t].window]
    /\ threads' = [threads EXCEPT ![t] = [@ EXCEPT !.pc = "check"]]
    /\ UNCHANGED admitted
    /\ LimitFrame

\* if len(self.calls[identifier]) >= self.max_calls: return allowed False
LimitCheck(t) ==
    /\ threads[t].pc = "check"
    /\ LET stored == rate_limiter.calls[threads[t].identifier]
       IN  threads' = [threads EXCEPT ![t] =
                           IF LimitExceeded(rate_limiter, stored)
                           THEN [@ EXCEPT !.pc = "returned", !.allowed = FALSE]
                           ELSE [@ EXCEPT !.pc = "append"]]
    /\ UNCHANGED <<rate_limiter, admitted>>
    /\ LimitFrame

\* self.calls[identifier].append(now); return allowed True
LimitAppend(t) ==
    /\ threads[t].pc = "append"
    /\ rate_limiter' = [rate_limiter EXCEPT
                            !.calls[threads[t].identifier] =
                                Append(@, threads[t].at)]
    /\ admitted' = [admitted EXCEPT ![threads[t].identifier] =
                        Append(@, threads[t].at)]
    /\ threads' = [threads EXCEPT ![t] =
                       [@ EXCEPT !.pc = "returned", !.allowed = TRUE]]
    /\ LimitFrame

InitLimit ==
    /\ conversation_history = ConversationHistory(MaxLimit)
    /\ minLimit = MaxLimit
    /\ appended = << >>
    /\ now = 0
    /\ \E used \in 0..RateMaxCalls :
           LET window == [i \in 1..used |-> 0]
           IN  /\ rate_limiter =
                      [RateLimiter(RateMaxCalls, RateWindow, TRUE) EXCEPT
                           !.calls = IF used = 0 THEN EmptyDict
                                     ELSE DictSet(EmptyDict, "default", window)]
               /\ admitted = [i \in Identifiers |->
                                  IF i = "default" THEN window ELSE << >>]
    /\ rl_result = NoResult
    /\ rl_reset = NoReset
    /\ specialized_agents = [a \in AgentNames |-> "stream"]
    /\ metrics = EmptyDict
    /\ monitor = SystemMonitor
    /\ stream = IdleStream
    /\ events = << >>
    /\ response_cache = ResponseCache(CacheMaxSize, CacheTTL, TRUE)
    /\ data_manager = DataManager
    /\ cache_log = NoCacheOp
    /\ threads = [t \in Threads |-> IdleThread]
    /\ chat = IdleChat

NextLimit ==
    \E t \in Threads :
        \/ LimitCall(t)
        \/ LimitFilter(t)
        \/ LimitBind(t)
        \/ LimitCheck(t)
        \/ LimitAppend(t)

SpecLimit == InitLimit /\ [][NextLimit]_vars

(***************************************************************************)
(* C20: RateLimiter.check_rate_limit under concurrency                     *)
(***************************************************************************)
\* C20: when several requests run check_rate_limit concurrently for the
\* same identifier the limit still holds: the calls admitted for an
\* identifier within one time_window, and those recorded for it, never
\* exceed max_calls; and no recorded admission is lost: once all calls have
\* returned, the window stored for the identifier holds every admitted call
\* that is still inside the window.
C20_LimitHoldsUnderConcurrency ==
    \A id \in Identifiers :
        /\ CountInWindow(admitted[id], now) <= rate_limiter.max_calls
        /\ Len(StoredWindow(rate_limiter, id).calls) <= rate_limiter.max_calls
        /\ AllReturned =>
               Len(StoredWindow(rate_limiter, id).calls)
                   = CountInWindow(admitted[id], now)

(***************************************************************************)
(* The graph of chat(): classification                                     *)
(***************************************************************************)
\* the classification call of this request has returned
Classified == chat.classified.returned

\* the model output without its leading and trailing blanks, in lower case
TrimmedLowerCased == LowerText(Strip(chat.classified.content))

\* C21: whenever the classification call returns, task_classification and
\* agent_type hold the same label of {chat, analysis, grading, code_review}:
\* the trimmed, lower-cased model output if it is one of the four, and chat
\* for every other output
C21_LabelIsValidatedOrChat ==
    Classified =>
        /\ chat.state.task_classification \in {"chat", "analysis", "grading", "code_review"}
        /\ chat.state.agent_type = chat.state.task_classification
        /\ chat.state.task_classification =
               IF TrimmedLowerCased \in
                      {<<"chat">>, <<"analysis">>, <<"grading">>, <<"code_review">>}
               THEN TrimmedLowerCased[1]
               ELSE "chat"

\* the model answered " Grading " and the request was labelled grading
C21_Witness ==
    /\ Classified
    /\ chat.classified.content = <<Blank, "Grading", Blank>>
    /\ chat.state.task_classification = "grading"

\* the classification call of this request raised, on an input that is not blank
ClassificationFailed ==
    /\ chat.failed = "classification"
    /\ Strip(chat.state.user_input) /= << >>

\* C22: a failure of the classification step for a non-blank input is
\* recovered by the label chat: the request goes on along the standard route
\* with agent_type = chat and does not end in the error state
C22_ClassificationFailureDefaultsToChat ==
    ClassificationFailed =>
        /\ chat.state.agent_type = "chat"
        /\ chat.pc /= "handle_error"
        /\ chat.state.response /= Apology(chat.state.error)

(***************************************************************************)
(* The graph of chat(): the grading pipeline                               *)
(***************************************************************************)
\* graph.invoke has run the workflow of this request to its end
WorkflowEnded ==
    /\ chat.pc \in {"end", "returned"}
    /\ chat.state.user_input /= << >>
    /\ chat.failed /= "graph"

GradingOnlyNodes ==
    {"grading_workflow_entry", "route_to_grading", "route_to_formatting",
     "route_to_chat_notes"}

NodesOf(path) == {path[i] : i \in 1..Len(path)}

\* C23: at the end of the workflow of a request classified as grading,
\* workflow_path is grading_workflow_entry, route_to_grading,
\* route_to_formatting, followed by route_to_chat_notes only if the input holds
\* one of the keywords explain, notes, clarify, details; a request classified
\* as anything else executes none of the four nodes
C23_WorkflowPathOfGrading ==
    LET three == <<"grading_workflow_entry", "route_to_grading", "route_to_formatting">>
        path == chat.state.workflow_path
    IN  /\ (WorkflowEnded /\ chat.state.task_classification = "grading") =>
               IF \E i \in 1..Len(chat.state.user_input) :
                      Lower(chat.state.user_input[i])
                          \in {"explain", "notes", "clarify", "details"}
               THEN path \in {three, three \o <<"route_to_chat_notes">>}
               ELSE path = three
        /\ chat.state.task_classification /= "grading" =>
               /\ chat.pc \notin GradingOnlyNodes
               /\ NodesOf(path) \cap GradingOnlyNodes = {}

\* the agents the pipeline has called so far, in the order of the calls
PipelineCalls == SelectSeq(chat.agent_calls, LAMBDA a : a /= "classifier")

\* the input of the request holds one of explain, notes, clarify, details
HasNotesKeyword ==
    \E i \in 1..Len(chat.state.user_input) :
        Lower(chat.state.user_input[i]) \in {"explain", "notes", "clarify", "details"}

\* the grading agent is the first agent called, and the formatting agent is
\* given the text the grading agent returned
GradingThenFormatting ==
    /\ PipelineCalls /= << >> => PipelineCalls[1] = "grading"
    /\ chat.formatting.called =>
           /\ chat.grading.called
           /\ chat.formatting.input = chat.grading.output

\* the third step left agent_responses and additional_notes as it found them
ThirdStepIsNoOp ==
    /\ chat.state.agent_responses = chat.notes.agent_responses
    /\ chat.state.additional_notes = chat.notes.additional_notes

PrimaryResponse ==
    IF chat.state.data_context.relevant_interactions > 0
    THEN SubSeq(chat.state.response, 1, Len(chat.state.response) - 3)
    ELSE chat.state.response

\* the workflow of a grading request has ended and its formatting step ran
GradingPipelineEnded ==
    /\ WorkflowEnded
    /\ chat.state.task_classification = "grading"
    /\ chat.formatting.called

\* C25: for a request that went through the grading pipeline, the primary
\* response chosen by synthesis, which chat() returns, is the output of the
\* formatting step
C25_PrimaryIsFormattedOutput ==
    GradingPipelineEnded =>
        /\ PrimaryResponse = chat.formatting.output
        /\ chat.pc = "returned" => chat.result = chat.state.response

\* the grading step of this request failed: no grading agent, or its call of
\* the remote model raised
GradingStepFailed == chat.failed = "grading"

\* C26: when a step of the grading pipeline other than formatting fails, the
\* remaining steps are not executed and the request ends in the error state,
\* the apology being returned to the caller
C26_FailedStepAbortsPipeline ==
    GradingStepFailed =>
        /\ chat.pc \in {"handle_error", "end", "returned"}
        /\ NodesOf(chat.state.workflow_path)
               \cap {"route_to_formatting", "route_to_chat_notes"} = {}
        /\ chat.pc = "returned" =>
               \E i \in 1..Len(chat.result) :
                   chat.result[i] = "I apologize, but I encountered an error:"

\* the workflow of a grading request has ended, and its formatting step
\* failed after the grading step had succeeded, or found no formatting agent
FormattingFailedOrMissing ==
    /\ WorkflowEnded
    /\ chat.state.task_classification = "grading"
    /\ \/ chat.failed = "formatting"
       \/ chat.notes.ran /\ "formatting" \notin DOMAIN specialized_agents

StandardRouteSucceeded ==
    /\ Classified
    /\ chat.state.task_classification /= "grading"
    /\ chat.pc \in {"manage_data", "synthesize_response", "end", "returned"}
    /\ chat.state.error = << >>

\* C28: on the standard route, when the step succeeds agent_responses holds
\* exactly one entry and its key is the classified agent type, with a
\* registered agent as with the direct model call made when none is registered
C28_OneResponseKeyedByAgentType ==
    StandardRouteSucceeded =>
        /\ Len(chat.state.agent_responses) = 1
        /\ chat.state.agent_responses[1].agent = chat.state.agent_type

(***************************************************************************)
(* workflow_path                                                           *)
(***************************************************************************)
IsPrefix(p, q) == Len(p) <= Len(q) /\ SubSeq(q, 1, Len(p)) = p

\* the same state with another workflow_path
WithPath(state, path) == [state EXCEPT !.workflow_path = path]

OtherPaths ==
    {<< >>, <<"route_to_chat_notes">>,
     <<"grading_workflow_entry", "route_to_grading", "route_to_formatting">>}

\* the two conditional edges decide the same whatever workflow_path holds
RoutingIgnoresPath ==
    \A path \in OtherPaths :
        /\ _should_use_grading_workflow(WithPath(chat.state, path))
               = _should_use_grading_workflow(chat.state)
        /\ _should_manage_data(WithPath(chat.state, path))
               = _should_manage_data(chat.state)

\* C29: within one request workflow_path only grows by appending: at every
\* step its previous value is a prefix of its new value, so no node removes
\* or reorders entries, and no routing decision reads it
C29_WorkflowPathOnlyGrows ==
    /\ [][chat'.calls = chat.calls =>
              IsPrefix(chat.state.workflow_path, chat'.state.workflow_path)]_vars
    /\ []RoutingIgnoresPath

\* the four nodes of the grading pipeline have each appended their name
C29_Witness ==
    chat.state.workflow_path =
        <<"grading_workflow_entry", "route_to_grading", "route_to_formatting",
          "route_to_chat_notes">>

(***************************************************************************)
(* SpecRequest: one request to a MasterAgent, made through chat() or       *)
(* through chat_streaming().                                               *)
(***************************************************************************)
\* chat() is called on an orchestrator that serves no other request
ChatRequest ==
    /\ stream.pc = "idle"
    /\ chat.pc = "idle"
    /\ ChatBegin

\* chat_streaming() is called on an orchestrator that serves no other request
StreamRequest ==
    /\ chat.pc = "idle"
    /\ StreamBegin

\* an orchestrator before the request: the memory is empty, restored from
\* disk, or holds the slot an abandoned stream left open
InitRequest ==
    /\ \E memory \in {"empty", "loaded", "open"} :
           conversation_history =
               CASE memory = "empty" -> ConversationHistory(MaxLimit)
                 [] memory = "loaded" -> LoadedHistory
                 [] memory = "open" ->
                        add_streaming_chunk(
                            start_streaming_message(ConversationHistory(MaxLimit), "chat"),
                            <<"a">>)
    /\ minLimit = MaxLimit
    /\ appended = << >>
    /\ now = 0
    /\ \E used \in {0, RateMaxCalls} :
           LET window == [i \in 1..used |-> 0]
           IN  /\ rate_limiter =
                      [RateLimiter(RateMaxCalls, RateWindow, TRUE) EXCEPT
                           !.calls = IF used = 0 THEN EmptyDict
                                     ELSE DictSet(EmptyDict, "default", window)]
               /\ admitted = [i \in Identifiers |->
                                  IF i = "default" THEN window ELSE << >>]
    /\ rl_result = NoResult
    /\ rl_reset = NoReset
    /\ specialized_agents \in AgentConfigs
    /\ data_manager = IF specialized_agents = EmptyDict THEN NoDataManager
                      ELSE DataManager
    /\ metrics = EmptyDict
    /\ monitor = SystemMonitor
    /\ stream = IdleStream
    /\ events = << >>
    /\ response_cache = ResponseCache(CacheMaxSize, CacheTTL, TRUE)
    /\ cache_log = NoCacheOp
    /\ threads = NoThreads
    /\ chat = IdleChat

NextRequest ==
    \/ ChatRequest
    \/ _classify_task
    \/ _route_to_agent
    \/ _manage_data
    \/ _synthesize_response
    \/ _handle_error
    \/ _grading_workflow_entry
    \/ _route_to_grading
    \/ _route_to_formatting
    \/ _route_to_chat_notes
    \/ ChatEnd
    \/ ChatExcept
    \/ StreamRequest
    \/ ResumeReject
    \/ ResumeClassifying
    \/ ResumeWorkflow
    \/ ResumeStatus
    \/ AgentAwait
    \/ ResumeChunk
    \/ ResumeStageEnd
    \/ ResumeError
    \/ ConsumerStops

SpecRequest == InitRequest /\ [][NextRequest]_vars

\* what the request has issued so far, in order
RequestOps == chat.ops \o stream.ops

Issued(i, op) == RequestOps[i].op = op

\* C30: within one request, made through chat() or chat_streaming(), the
\* user message is appended to the memory before any agent or model call, and
\* every add_streaming_chunk comes after start_streaming_message and before
\* finalize_streaming_message
C30_UserMessageFirstChunksInsideSlot ==
    \A i \in 1..Len(RequestOps) :
        /\ Issued(i, "call") =>
               /\ \E j \in 1..(i - 1) : Issued(j, "add_user_message")
               /\ RequestOps[i].stored
        /\ Issued(i, "add_streaming_chunk") =>
               /\ \E j \in 1..(i - 1) : Issued(j, "start_streaming_message")
               /\ \A j \in 1..(i - 1) : ~Issued(j, "finalize_streaming_message")

\* a streamed grading request: both agents were called after the user message
\* was stored, and their chunks lie between the opening and the finalizing
C30_Witness ==
    /\ Len(stream.ops) >= 6
    /\ Issued(1, "add_user_message")
    /\ Issued(2, "start_streaming_message")
    /\ Issued(3, "call")
    /\ Issued(4, "add_streaming_chunk")
    /\ Issued(Len(RequestOps), "finalize_streaming_message")
    /\ stream.agent_type = "grading"

(***************************************************************************)
(* SpecContext: a DataManager on its own.  Interactions are stored one     *)
(* after the other and get_relevant_context is called between them.        *)
(***************************************************************************)
MaxStored == 6      \* interactions stored in one behaviour

\* the interactions stored: they match the queries with different scores
StoredInteractions ==
    {[user_input |-> input, task_type |-> "chat",
      agent_responses |-> <<[agent |-> "chat", response |-> <<"a">>]>>] :
         input \in {<<"hi">>, <<"Grade">>, <<"grade", Blank, "essay">>}}

ContextQueries == {<<"grade", Blank, "essay">>, <<"Grade">>}

ContextFrame ==
    UNCHANGED <<memVars, rateVars, obsVars, streamVars, fixedVars, now,
                response_cache, chat>>

\* store_interaction(interaction_data)
ContextStore ==
    /\ Len(data_manager.interactions) < MaxStored
    /\ \E interaction \in StoredInteractions :
           data_manager' = [store_interaction(data_manager, interaction) EXCEPT
                                !.lookup = NoLookup]
    /\ ContextFrame

\* get_relevant_context(user_input, max_context), max_context given or left
\* to its default
ContextLookup ==
    /\ \E user_input \in ContextQueries, max_context \in {2, DefaultMaxContext} :
           data_manager' =
               [data_manager EXCEPT !.lookup =
                    [called |-> TRUE, user_input |-> user_input,
                     max_context |-> max_context,
                     recent |-> get_recent_interactions(data_manager, RecentLimit),
                     result |-> RelevantInteractions(data_manager, user_input,
                                                     max_context)]]
    /\ ContextFrame

InitContext ==
    /\ conversation_history = ConversationHistory(MaxLimit)
    /\ minLimit = MaxLimit
    /\ appended = << >>
    /\ now = 0
    /\ RateIdle
    /\ AgentsIdle

NextContext ==
    \/ ContextStore
    \/ ContextLookup

SpecContext == InitContext /\ [][NextContext]_vars

\* the last lookup, and the score of a recent interaction counted afresh
Lookup == data_manager.lookup

ScoreOfLine(line) ==
    Cardinality({k \in 1..Len(Lookup.user_input) :
                    /\ Lookup.user_input[k] /= Blank
                    /\ Lower(Lookup.user_input[k])
                           \in InteractionText(Lookup.recent[line])})

\* at most max_context interactions, each a recent one with its own score,
\* which is at least 1, the greater score first
BoundedScoredDescending ==
    LET result == Lookup.result
    IN  /\ Len(result) <= Lookup.max_context
        /\ \A i \in 1..Len(result) :
               /\ result[i].line \in 1..Len(Lookup.recent)
               /\ result[i].relevance_score = ScoreOfLine(result[i].line)
               /\ result[i].relevance_score >= 1
        /\ \A i, j \in 1..Len(result) :
               i < j => result[i].relevance_score >= result[j].relevance_score
        /\ \A i, j \in 1..Len(result) : i /= j => result[i].line /= result[j].line

MaxSlotOps == 6     \* calls made on one ConversationHistory (SpecSlot)

SlotFrame ==
    UNCHANGED <<now, appended, minLimit, rateVars, fixedVars, obsVars, events,
                chatVars>>

SlotOp(op) == Len(stream.ops) < MaxSlotOps /\ stream' = Logged(stream, op)

\* history.start_streaming_message(agent_type) on a closed slot
SlotStart ==
    /\ ~start_streaming_raises(conversation_history)
    /\ Len(stream.ops) < MaxSlotOps
    /\ \E agent_type \in {"chat", "grading"} :
           conversation_history' =
               start_streaming_message(conversation_history, agent_type)
    /\ stream' = [Logged(stream, "start_streaming_message") EXCEPT
                      !.slot_log = << >>]
    /\ SlotFrame

\* history.add_streaming_chunk(chunk) while the slot is open
SlotChunk ==
    /\ is_streaming(conversation_history)
    /\ Len(stream.ops) < MaxSlotOps
    /\ \E chunk \in Texts :
           /\ conversation_history' = add_streaming_chunk(conversation_history, chunk)
           /\ stream' = [Logged(stream, "add_streaming_chunk") EXCEPT
                             !.slot_log = Append(@, chunk)]
    /\ SlotFrame

\* history.finalize_streaming_message()
SlotFinalize ==
    /\ conversation_history' = finalize_streaming_message(conversation_history, now)
    /\ SlotOp("finalize_streaming_message")
    /\ SlotFrame

\* history.cancel_streaming_message(), whether a stream is open or not
SlotCancel ==
    /\ conversation_history' = cancel_streaming_message(conversation_history)
    /\ SlotOp("cancel_streaming_message")
    /\ SlotFrame

\* history.add_user_message(content), between the calls on the slot
SlotAddUser ==
    /\ conversation_history' = add_user_message(conversation_history, <<"hi">>, now)
    /\ SlotOp("add_user_message")
    /\ SlotFrame

InitSlot ==
    /\ \E m \in 1..MaxLimit :
           /\ conversation_history = ConversationHistory(m)
           /\ minLimit = m
    /\ now = 0
    /\ appended = << >>
    /\ RateIdle
    /\ AgentsIdle

NextSlot ==
    \/ SlotStart
    \/ SlotChunk
    \/ SlotFinalize
    \/ SlotCancel
    \/ SlotAddUser

SpecSlot == InitSlot /\ [][NextSlot]_vars

\* the operation of the i-th call on the slot, counted from the last one (0)
SlotOpFromLast(i) ==
    IF Len(stream.ops) > i THEN stream.ops[Len(stream.ops) - i].op ELSE "none"

\* C32: finalize_streaming_message after start_streaming_message and chunks
\* c1..ck appends exactly one assistant message whose content is c1 + ... + ck
\* in arrival order and whose metadata has was_streamed, and afterwards the
\* slot is closed and the buffer is empty.
C32_FinalizeAppendsTheJoinedChunks ==
    [][(SlotFinalize /\ is_streaming(conversation_history)) =>
           LET h == conversation_history
               message == AssistantMessage(Concat(stream.slot_log), h.streaming_agent,
                                           {"was_streamed"}, now)
           IN  /\ conversation_history'.messages =
                      LastN(Append(h.messages, message), h.max_messages)
               /\ ~is_streaming(conversation_history')
               /\ conversation_history'.streaming_chunks = << >>]_vars

\* C32 witness: start, the chunks "a" and "b", finalize: the memory ends with
\* the assistant message "ab" marked was_streamed and the slot is closed.
C32_Witness ==
    /\ SlotOpFromLast(0) = "finalize_streaming_message"
    /\ SlotOpFromLast(1) = "add_streaming_chunk"
    /\ SlotOpFromLast(2) = "add_streaming_chunk"
    /\ SlotOpFromLast(3) = "start_streaming_message"
    /\ stream.slot_log = <<(<<"a">>), (<<"b">>)>>
    /\ LET h == conversation_history
       IN  /\ h.messages /= << >>
           /\ h.messages[Len(h.messages)].role = "assistant"
           /\ h.messages[Len(h.messages)].content = <<"a", "b">>
           /\ "was_streamed" \in h.messages[Len(h.messages)].metadata
           /\ ~is_streaming(h)

\* C33: cancel_streaming_message closes the slot, empties the buffer and
\* appends no message, and it is idempotent: called a second time, or when no
\* stream is open, it changes neither the message list nor the slot.
C33_CancelDiscardsAndIsIdempotent ==
    [][SlotCancel =>
           /\ ~is_streaming(conversation_history')
           /\ conversation_history'.streaming_chunks = << >>
           /\ conversation_history'.messages = conversation_history.messages
           /\ ~is_streaming(conversation_history) =>
                  conversation_history' = conversation_history]_vars

\* C33 witness: a stream with a buffered chunk was cancelled twice in a row,
\* and nothing of it is in the memory.
C33_Witness ==
    /\ SlotOpFromLast(0) = "cancel_streaming_message"
    /\ SlotOpFromLast(1) = "cancel_streaming_message"
    /\ SlotOpFromLast(2) = "add_streaming_chunk"
    /\ SlotOpFromLast(3) = "start_streaming_message"
    /\ ~is_streaming(conversation_history)
    /\ conversation_history.streaming_chunks = << >>
    /\ conversation_history.messages = << >>

(***************************************************************************)
(* SpecChatClear: chat() called again on a MasterAgent whose memory began  *)
(* empty and has room for every message of the calls; between two calls    *)
(* the memory may be cleared with clear_conversation_history.              *)
(***************************************************************************)
\* MasterAgent.clear_conversation_history() after a call has ended: the memory
\* only, not the cache
ChatClear ==
    /\ chat.pc \in {"returned", "raised"}
    /\ chat.calls < MaxRepeatedCalls
    /\ conversation_history.messages /= << >>
    /\ conversation_history' = clear_history(conversation_history)
    /\ chat' = [chat EXCEPT !.pc = "idle"]
    /\ UNCHANGED <<now, rateVars, obsVars, response_cache, data_manager>>
    /\ ChatFrame

\* a new MasterAgent with nothing saved to load and room for two messages of
\* every call
InitChatClear ==
    /\ conversation_history = ConversationHistory(2 * MaxRepeatedCalls)
    /\ minLimit = 2 * MaxRepeatedCalls
    /\ appended = << >>
    /\ now = 0
    /\ RateIdle
    /\ \E imported \in BOOLEAN :
           /\ specialized_agents = IF imported THEN [a \in AgentNames |-> "stream"]
                                   ELSE EmptyDict
           /\ data_manager = IF imported THEN DataManager ELSE NoDataManager
    /\ metrics = EmptyDict
    /\ monitor = SystemMonitor
    /\ stream = IdleStream
    /\ events = << >>
    /\ response_cache = ResponseCache(CacheMaxSize, CacheTTL, TRUE)
    /\ cache_log = NoCacheOp
    /\ threads = NoThreads
    /\ chat = IdleChat

NextChatClear ==
    \/ ChatAgain
    \/ _classify_task
    \/ _route_to_agent
    \/ _manage_data
    \/ _synthesize_response
    \/ _handle_error
    \/ _grading_workflow_entry
    \/ _route_to_grading
    \/ _route_to_formatting
    \/ _route_to_chat_notes
    \/ ChatEnd
    \/ ChatExcept
    \/ ChatClear

SpecChatClear == InitChatClear /\ [][NextChatClear]_vars

\* k user messages, each immediately followed by an assistant message
UserAssistantPairs(messages) ==
    /\ Len(messages) % 2 = 0
    /\ \A i \in 1..Len(messages) :
           messages[i].role = IF i % 2 = 1 THEN "user" ELSE "assistant"

\* C34: after k chat() calls that each return a response without raising, on
\* a memory with capacity at least 2k that started empty, the memory holds
\* exactly k user messages and k assistant messages, each user message
\* immediately followed by the assistant message of the same call: a call
\* that returns on a memory of k - 1 such pairs leaves k pairs, the last one
\* being its own input and its own response.
C34_EachReturnedCallLeavesItsPair ==
    LET before == chat.before.conversation_history.messages
        messages == conversation_history.messages
    IN  (chat.pc = "returned" /\ UserAssistantPairs(before)
             /\ Len(before) + 2 <= conversation_history.max_messages) =>
            /\ UserAssistantPairs(messages)
            /\ Len(messages) = Len(before) + 2
            /\ messages[Len(messages) - 1].content = chat.user_input
            /\ messages[Len(messages)].content = chat.result

(***************************************************************************)
(* C35: what chat() stores in the response cache                           *)
(***************************************************************************)
\* the response _handle_error builds
IsWorkflowApology(text) ==
    /\ text /= << >>
    /\ text[1] = Head(Apology(<< >>))

\* the call repeats the input of the call before it, whose workflow failed
RepeatsFailedCall ==
    /\ chat.calls >= 2
    /\ chat.raw_input = chat.previous.raw_input
    /\ chat.previous.pc = "returned"
    /\ chat.previous.failed /= "none"

\* the call was answered from the cache
ServedFromCache ==
    /\ chat.pc = "returned"
    /\ response_cache.hits = chat.before.response_cache.hits + 1

\* C35: chat() stores a response in the response cache only for a request
\* that succeeded: no apology produced by the Error state of the workflow is
\* in the cache, and a request repeated after a failure is not answered with
\* the earlier apology from the cache.
C35_ApologyIsNeverCached ==
    /\ \A i \in 1..Len(response_cache.cache) :
           ~IsWorkflowApology(response_cache.cache[i].response)
    /\ (LookedUp /\ RepeatsFailedCall) => ~ServedFromCache

\* the second half of C35 alone: the repeated request runs the workflow
C35_RepeatRunsAgain ==
    (LookedUp /\ RepeatsFailedCall) => ~ServedFromCache

(***************************************************************************)
(* C36: ResponseCache.set on a key that is present                         *)
(***************************************************************************)
\* C36: set() on a key that is already present only updates that key's value
\* and timestamp: it removes no other entry from the cache, including when
\* the cache is at capacity.
C36_SetOfPresentKeyRemovesNothing ==
    (cache_log.op = "set" /\ response_cache.enabled /\ cache_log.present_before) =>
        /\ cache_log.evicted = {}
        /\ Len(response_cache.cache) = cache_log.size_before

(***************************************************************************)
(* C37: the message finalized and the chunks delivered                     *)
(***************************************************************************)
\* the contents of the Chunk events, in the order of delivery
RECURSIVE ChunkContents(_)
ChunkContents(evs) ==
    IF evs = << >> THEN << >>
    ELSE IF Head(evs).type = "chunk"
         THEN <<Head(evs).content>> \o ChunkContents(Tail(evs))
         ELSE ChunkContents(Tail(evs))

\* C37: for every chat_streaming run that completes successfully, the content
\* of the assistant message appended to conversation memory at finalize equals
\* the concatenation, in order, of the contents of all Chunk events delivered
\* to the consumer in that run, on the streaming path and on the
\* non-streaming fallback path alike.
C37_FinalizedContentIsAllChunks ==
    (stream.pc = "done" /\ stream.outcome = "finalized") =>
        LET messages == conversation_history.messages
        IN  /\ messages /= << >>
            /\ messages[Len(messages)].role = "assistant"
            /\ messages[Len(messages)].content = Concat(ChunkContents(events))

(***************************************************************************)
(* C38: the context note and the request's own interaction                 *)
(***************************************************************************)
\* the response ends with the note "[Context: Based on N previous interactions]"
HasContextNote(response) ==
    \E i \in 1..Len(response) : response[i] = "[Context: Based on"

\* C38: the context note is appended to a response only when interactions
\* stored by earlier requests match the current input; the interaction the
\* current request stores itself is never counted.  SpecChat makes the first
\* request on a data manager that has stored nothing: no earlier interaction
\* exists, so the request finds no relevant interaction and its response
\* carries no note.
C38_OwnInteractionIsNotCounted ==
    (chat.pc = "returned" /\ chat.calls = 1) =>
        /\ chat.state.data_context.relevant_interactions = 0
        /\ ~HasContextNote(chat.result)

(***************************************************************************)
(* C39: chat_streaming started while another run has the slot open         *)
(***************************************************************************)
\* the run found the slot open: its start_streaming_message raised
FoundSlotOpen ==
    \E i \in 1..Len(events) :
        events[i] = Error(<<"Error:", "streaming already in progress">>)

\* C39: if chat_streaming is started while another chat_streaming run on the
\* same instance has its streaming slot open, the second run's attempt to
\* open the slot fails and the second run ends with an Error event, while the
\* first run's open slot and the chunks it has buffered so far (here the
\* chunk "a" of the chat agent) are left unchanged, so that the first run can
\* still finalize a message containing all of its chunks.
C39_SecondRunLeavesFirstSlotAlone ==
    (stream.pc = "done" /\ FoundSlotOpen) =>
        /\ events[Len(events)].type = "error"
        /\ ~stream.slot_opened
        /\ is_streaming(conversation_history)
        /\ conversation_history.streaming_agent = "chat"
        /\ conversation_history.streaming_chunks = <<(<<"a">>)>>

====
